---- MODULE Spec2Model ----
(***************************************************************************)
(* A model of rapidtar's write pipeline: the data-zone ledger              *)
(* (librapidarchive/src/spanning.rs), the record-blocking writer           *)
(* (librapidarchive/src/blocking.rs) and the spanning recovery driver      *)
(* (librapidarchive/src/tar/recovery.rs, rapidtar/src/bin/rapidtar.rs).    *)
(*                                                                         *)
(* Rust's Option<T> is modelled as a sequence of length 0 (None) or 1      *)
(* (Some(x)), so that values of one field always have one shape.           *)
(***************************************************************************)
EXTENDS Integers, Sequences, FiniteSets, TLC

VARIABLES
    \* ---- a pair of stand-alone DataZones (SpecZone)
    zone_a,         \* a DataZone<P>
    zone_b,         \* another DataZone<P>
    zone_last,      \* the last operation applied: its input, pre-state and result
    \* ---- an upstream DataZoneStream and the stage below it (SpecStream)
    dzs,            \* the DataZoneStream under observation
    dzs_behind,     \* the DataZoneStream of the stage below (source of `chain`)
    snapshot,       \* result of the last uncommitted_writes call on dzs
    dzs_last,       \* the last operation applied to dzs: input, pre-state, result
    commit_total,   \* sum of all write_committed arguments given to dzs
    overhang_total, \* sum of all overhangs dzs.write_committed returned
    popped_total,   \* sum of committed_length of the zones popped from dzs
    \* ---- a BlockingWriter over its inner sink (SpecBW)
    bw,             \* the BlockingWriter: blocking_factor, inner, block, datazone_stream
    bw_input,       \* number of bytes handed to write_all so far (they are 1, 2, 3, ...)
    bw_written,     \* the buffers of the write_all calls that did not return an error
    bw_last,        \* the last call on the writer and how it ended
    bw_faults,      \* number of calls the inner sink has refused or failed
    bw_failed,      \* some write_all or flush has returned an error
    bw_phase,       \* "writing", "flushed" (first flush done, nothing since), "after"
    bw_flushes,     \* number of flush calls made
    \* ---- rapidtar's create driver over a ConcurrentWriteBuffer (SpecRec)
    rt_format,      \* tarparams.format: "USTAR" or "POSIX"
    rt_pc,          \* where the main thread stands
    rt_next,        \* number of entries the traversal channel has handed over
    rt_file,        \* the file whose entry is being written
    rt_pos,         \* the next record of it to write: 0 the header, k its k-th data record
    rt_offset,      \* recover_data's `offset` for the zone being recovered
    rt_lost,        \* lost_zones of recover_proc / `lost` of recover_data
    rt_iter,        \* position of `iter` in rt_lost (index of the next zone)
    rt_torn,        \* the files that have appeared in a list of lost zones
    sink,           \* the ConcurrentWriteBuffer of the current volume, with its channels
    volumes,        \* the media written so far, each with capacity and content
    rt_spanning,    \* TarParameter.spanning
    rt_reported,    \* what main has printed about entries
    rt_faults,      \* how often a medium has answered with an error other than WriteZero
    \* ---- one ConcurrentWriteBuffer, its producer, its worker and its inner sink (SpecCWB)
    cwb,            \* the ConcurrentWriteBuffer with its two channels
    cwb_pc,         \* the producer: "idle", inside "write" or "flush", or "panicked"
    cwb_call,       \* the producer's call in progress, or its last call and result
    cwb_inner,      \* the calls the worker has made on the inner sink, in order
    cwb_sent,       \* the commands the producer has sent, in program order
    cwb_worker,     \* "alive", or "dead" once the worker thread has ended
    cwb_count,      \* how many producer calls and how many sink irregularities so far
    \* ---- the volume-exchange prompt (SpecCli)
    cli_pc,         \* where volume_exchange_cli stands: prompt, returned, error, panicked
    cli_cancelled,  \* tarresult.cancelled
    cli_outfile,    \* tarparams.outfile, a string of characters
    cli_last,       \* the last response read and what was done with it
    cli_lines,      \* number of responses read so far
    \* ---- the traversal channel between the traversal pool and serialize_proc (SpecTrav)
    tr_pc,          \* read_traverse has run or not
    tr_depth,       \* perf_tuning.channel_queue_depth
    tr_chan,        \* the HeaderGenResults queued in the sync_channel
    tr_workers,     \* per pool thread, the result it has produced and is sending, or None
    tr_found,       \* number of paths the traversal has produced a result for
    tr_recvd,       \* the results serialize_proc has received, in order
    \* ---- a tape device read through read and read_block (SpecTape)
    tp_pc,          \* the device is "closed", "open", or a call has "panicked" or does not return
    tp_tape,        \* the records on the tape, each a sequence of bytes
    tp_dev,         \* the device (platform, tape position, spill buffer, capacity, read position)
    tp_out,         \* every byte returned to the caller so far, in order
    tp_last,        \* the last call, the state it started in and the bytes it returned
    tp_calls,       \* number of calls made
    \* ---- stream(r, w, buffer_len) copying a source to a writer (SpecCopy)
    sc_pc,          \* stream is "idle", in its "loop", or has returned ("done")
    sc_source,      \* the bytes of the reader
    sc_rpos,        \* how many of them have been read
    sc_read_buf,    \* read_buf (buf its contents, cap its capacity)
    sc_write_buf,   \* write_buf
    sc_written,     \* the count stream keeps in written
    sc_sink,        \* every byte the writer has accepted, in order
    \* ---- serialize of one traversal result into a tarball writer (SpecSer)
    ts_pc,          \* serialize is "idle", about to write the "header", the "file", the "padding", or has "returned" or "failed"
    ts_traversal,   \* the HeaderGenResult (lengths of encoded_header and file_prefix, file_type, file_size)
    ts_actual,      \* length of the file on disk when serialize opens it
    ts_tarball_size, \* the local tarball_size
    ts_sink,        \* what the tarball writer was given, a sequence of chunks
    ts_ret,         \* the value of Ok(..) once returned
    \* ---- the create driver from read_traverse to close_tarball (SpecCreate)
    cd_pc,          \* main, then inside serialize_proc, then closed (marker written) or aborted
    cd_depth,       \* perf_tuning.channel_queue_depth
    cd_tree,        \* per traversal path, the entries of the directory it names (0 for a file)
    cd_threads,     \* per pool thread, the stack of traverse calls it is inside, innermost first
    cd_tasks,       \* the jobs spawned on the pool and not yet started
    cd_kids,        \* per traversal path, the jobs of its rayon scope that have not finished
    cd_senders,     \* the SyncSender clones alive
    cd_chan,        \* the number of HeaderGenResults queued in the sync_channel
    cd_received     \* the number of entries serialize_proc has received and written

zvars == <<zone_a, zone_b, zone_last>>
svars == <<dzs, dzs_behind, snapshot, dzs_last, commit_total, overhang_total, popped_total>>
bvars == <<bw, bw_input, bw_written, bw_last, bw_faults, bw_failed, bw_phase, bw_flushes>>
rvars == <<rt_format, rt_pc, rt_next, rt_file, rt_pos, rt_offset, rt_lost, rt_iter, rt_torn,
           sink, volumes, rt_spanning, rt_reported, rt_faults>>
cvars == <<cwb, cwb_pc, cwb_call, cwb_inner, cwb_sent, cwb_worker, cwb_count>>
lvars == <<cli_pc, cli_cancelled, cli_outfile, cli_last, cli_lines>>
tvars == <<tr_pc, tr_depth, tr_chan, tr_workers, tr_found, tr_recvd>>
pvars == <<tp_pc, tp_tape, tp_dev, tp_out, tp_last, tp_calls>>
yvars == <<sc_pc, sc_source, sc_rpos, sc_read_buf, sc_write_buf, sc_written, sc_sink>>
xvars == <<ts_pc, ts_traversal, ts_actual, ts_tarball_size, ts_sink, ts_ret>>
dvars == <<cd_pc, cd_depth, cd_tree, cd_threads, cd_tasks, cd_kids, cd_senders, cd_chan, cd_received>>
vars == <<zvars, svars, bvars, rvars, cvars, lvars, tvars, pvars, yvars, xvars, dvars>>

\* what the steps of one part of the model leave alone
nonzone == <<svars, bvars, rvars, cvars, lvars, tvars, pvars, yvars, xvars, dvars>>
nonstream == <<zvars, bvars, rvars, cvars, lvars, tvars, pvars, yvars, xvars, dvars>>
nonbw == <<zvars, svars, rvars, cvars, lvars, tvars, pvars, yvars, xvars, dvars>>
nonrec == <<zvars, svars, bvars, cvars, lvars, tvars, pvars, yvars, xvars, dvars>>
noncwb == <<zvars, svars, bvars, rvars, lvars, tvars, pvars, yvars, xvars, dvars>>
noncli == <<zvars, svars, bvars, rvars, cvars, tvars, pvars, yvars, xvars, dvars>>
nontrav == <<zvars, svars, bvars, rvars, cvars, lvars, pvars, yvars, xvars, dvars>>
nontape == <<zvars, svars, bvars, rvars, cvars, lvars, tvars, yvars, xvars, dvars>>
noncopy == <<zvars, svars, bvars, rvars, cvars, lvars, tvars, pvars, xvars, dvars>>
nonser == <<zvars, svars, bvars, rvars, cvars, lvars, tvars, pvars, yvars, dvars>>
noncreate == <<zvars, svars, bvars, rvars, cvars, lvars, tvars, pvars, yvars, xvars>>

----------------------------------------------------------------------------
(* Bounds of the model *)

\* identities handed to begin_data_zone / resume_data_zone are 1..MaxIdent
MaxIdent == 3
\* largest byte count of a single ledger call
MaxCount == 3
\* largest length a single zone may reach (SpecZone)
MaxLength == 3
\* most bytes the zones of one stream may hold together (SpecStream)
MaxBytes == 3
\* most bytes the zones of one stage may hold together (SpecMerge)
MaxPipeBytes == 1
\* most zones a stream's pending queue may hold
MaxPending == 2
\* cap on the sum of write_committed arguments given to one stream
MaxCommitTotal == 4
\* bytes of one tar block (512 in blocking.rs), scaled down
BlockBytes == 2
\* largest blocking factor given to new_with_factor
MaxFactor == 2
\* longest buffer given to one write_all call
MaxWriteLen == 4
\* most bytes given to one BlockingWriter altogether
MaxInput == 5
\* most calls the inner sink refuses or fails
MaxFaults == 1
\* most zones begun on one BlockingWriter
MaxBWZones == 1
\* most flush calls made on one BlockingWriter
MaxFlushes == 1
\* number of regular files the traversal hands to the create driver
NumFiles == 1
\* size of each file, in records of 512 bytes
FileSize == 5
\* largest capacity of a volume that can run full, in records
MaxCap == 2
\* most volumes one run may use
MaxVolumes == 3
\* serial_buffer_limit of the ConcurrentWriteBuffer, in records
BufLimit == 3
\* buffered_limit of the ConcurrentWriteBuffer under observation, in bytes
CwbLimit == 2
\* longest buffer given to one write call of it
MaxCwbLen == 2
\* most calls the producer makes on it, and the zone identifiers it uses
MaxCwbCalls == 3
MaxCwbZones == 1
\* most writes its inner sink fails or accepts only in part
MaxCwbFaults == 1
\* longest response typed at the volume-exchange prompt, and most responses
MaxCliLine == 3
MaxCliLines == 2
\* largest channel_queue_depth, most threads of the traversal pool, most paths
MaxQueueDepth == 2
MaxTravWorkers == 2
MaxPaths == 4
\* most records on the tape, longest record, longest buffer given to read,
\* most calls on the device
MaxRecords == 2
MaxRecLen == 3
MaxReadLen == 3
MaxTapeCalls == 3
\* initial capacity of the spill buffer (1024 bytes in the source)
SpillCap == 2
\* most zones in the list handed to recover_proc
MaxLost == 2
\* longest source given to stream, largest buffer_len, and the number of bytes
\* after which the writer is no longer followed
MaxSource == 4
MaxBufLen == 3
MaxSinkBytes == 8
\* longest file given to serialize, most records of an encoded header
MaxFileSize == 5
MaxHeaderRecords == 2
\* most paths in tarparams.traversal_list, most entries of a directory among them
MaxTopPaths == 2
MaxEntries == 2
\* length of a tar record (512 bytes in the source)
TarRecord == 4
\* length of an encoded header, in records
HeaderLen == 1
\* length of the end-of-archive marker (vec![0; 1024]), in records
EofLen == 2

None == <<>>
Some(x) == <<x>>
IsSome(o) == Len(o) = 1
Unwrap(o) == o[1]

Idents == 1 .. MaxIdent
Counts == 0 .. MaxCount

Min(a, b) == IF a <= b THEN a ELSE b
Max(a, b) == IF a >= b THEN a ELSE b

----------------------------------------------------------------------------
(* DataZone: spanning.rs 9-124 *)

DataZone_new(ident) ==
    [ident |-> Some(ident), length |-> 0, committed_length |-> 0, uncommitted_length |-> 0]

DataZone_for_resumption(ident, committed) ==
    [ident |-> Some(ident), length |-> committed, committed_length |-> committed,
     uncommitted_length |-> 0]

DataZone_slack_zone ==
    [ident |-> None, length |-> 0, committed_length |-> 0, uncommitted_length |-> 0]

DataZone_write_through(z, length) ==
    [z EXCEPT !.length = @ + length, !.committed_length = @ + length]

DataZone_write_buffered(z, length) ==
    [z EXCEPT !.length = @ + length, !.uncommitted_length = @ + length]

\* a write_committed that credits the whole argument, overhang included
Mut_DataZone_write_committed(z, length) ==
    IF z.uncommitted_length >= length
    THEN [zone |-> [z EXCEPT !.uncommitted_length = @ - length,
                             !.committed_length = @ + length],
          ret |-> None]
    ELSE [zone |-> [z EXCEPT !.uncommitted_length = 0,
                             !.committed_length = @ + length],
          ret |-> Some(length - z.uncommitted_length)]

\* a write_committed with the comparison of the earlier revision (> for >=)
Mut_DataZone_write_committed_gt(z, length) ==
    IF z.uncommitted_length > length
    THEN [zone |-> [z EXCEPT !.uncommitted_length = @ - length,
                             !.committed_length = @ + length],
          ret |-> None]
    ELSE [zone |-> [z EXCEPT !.uncommitted_length = 0,
                             !.committed_length = @ + z.uncommitted_length],
          ret |-> Some(length - z.uncommitted_length)]

\* returns the zone after the call and the call's return value
DataZone_write_committed(z, length) ==
    IF z.uncommitted_length >= length
    THEN [zone |-> [z EXCEPT !.uncommitted_length = @ - length,
                             !.committed_length = @ + length],
          ret |-> None]
    ELSE LET overhang == length - z.uncommitted_length
         IN  [zone |-> [z EXCEPT !.uncommitted_length = 0,
                                 !.committed_length = @ + (length - overhang)],
              ret |-> Some(overhang)]

\* a merge that keeps the receiver's committed_length
Mut_DataZone_merge_zone(self, other) ==
    IF self.ident # other.ident
    THEN None
    ELSE Some([ident |-> self.ident,
               length |-> Max(self.length, other.length),
               committed_length |-> self.committed_length,
               uncommitted_length |-> Max(self.length, other.length) - self.committed_length])

DataZone_merge_zone(self, other) ==
    IF self.ident # other.ident
    THEN None
    ELSE LET merged_length == Max(self.length, other.length)
             merged_commit == Min(self.committed_length, other.committed_length)
             consistent_uncommit == merged_length - merged_commit
         IN  Some([ident |-> self.ident,
                   length |-> merged_length,
                   committed_length |-> merged_commit,
                   uncommitted_length |-> consistent_uncommit])

----------------------------------------------------------------------------
(* DataZoneStream: spanning.rs 132-356 *)

DataZoneStream_new == [cur_zone |-> None, pending_zones |-> <<>>]

DataZoneStream_write_buffered(s, length) ==
    IF IsSome(s.cur_zone)
    THEN [s EXCEPT !.cur_zone = Some(DataZone_write_buffered(Unwrap(s.cur_zone), length))]
    ELSE s

DataZoneStream_write_through(s, length) ==
    IF IsSome(s.cur_zone)
    THEN [s EXCEPT !.cur_zone = Some(DataZone_write_through(Unwrap(s.cur_zone), length))]
    ELSE s

\* The `while let Some(zone) = pending_zones.front_mut()` loop of write_committed.
\* returned: the loop left through `return None`; popped: the zones pop_front removed.
RECURSIVE DrainPending(_, _, _)
DrainPending(pending, commit_remain, popped) ==
    IF pending = <<>>
    THEN [pending |-> <<>>, commit_remain |-> commit_remain, popped |-> popped,
          returned |-> FALSE]
    ELSE LET r == DataZone_write_committed(Head(pending), commit_remain)
             remain == IF IsSome(r.ret) THEN Unwrap(r.ret) ELSE 0
         IN  IF remain = 0
             THEN [pending |-> <<r.zone>> \o Tail(pending), commit_remain |-> 0,
                   popped |-> popped, returned |-> TRUE]
             ELSE DrainPending(Tail(pending), remain, Append(popped, r.zone))

\* a write_committed that debits the current zone before the pending zones
Mut_DataZoneStream_write_committed(s, length) ==
    LET c == IF IsSome(s.cur_zone)
             THEN DataZone_write_committed(Unwrap(s.cur_zone), length)
             ELSE [zone |-> DataZone_slack_zone, ret |-> Some(length)]
        remain == IF IsSome(c.ret) THEN Unwrap(c.ret) ELSE 0
        d == DrainPending(s.pending_zones, remain, <<>>)
    IN  [stream |-> [cur_zone |-> IF IsSome(s.cur_zone) THEN Some(c.zone) ELSE None,
                     pending_zones |-> d.pending],
         ret |-> IF d.returned \/ d.commit_remain = 0 THEN None ELSE Some(d.commit_remain),
         popped |-> d.popped]

\* returns the stream after the call, the return value and the zones popped
DataZoneStream_write_committed(s, length) ==
    LET d == DrainPending(s.pending_zones, length, <<>>)
    IN  IF d.returned
        THEN [stream |-> [s EXCEPT !.pending_zones = d.pending], ret |-> None,
              popped |-> d.popped]
        ELSE IF d.commit_remain > 0
             THEN IF IsSome(s.cur_zone)
                  THEN LET r == DataZone_write_committed(Unwrap(s.cur_zone), d.commit_remain)
                       IN  [stream |-> [cur_zone |-> Some(r.zone), pending_zones |-> d.pending],
                            ret |-> r.ret, popped |-> d.popped]
                  ELSE [stream |-> [s EXCEPT !.pending_zones = d.pending],
                        ret |-> Some(d.commit_remain), popped |-> d.popped]
             ELSE [stream |-> [s EXCEPT !.pending_zones = d.pending], ret |-> None,
                   popped |-> d.popped]

DataZoneStream_end_data_zone(s) ==
    LET pushed == IF IsSome(s.cur_zone)
                     /\ (IsSome(Unwrap(s.cur_zone).ident) \/ Unwrap(s.cur_zone).length > 0)
                  THEN Append(s.pending_zones, Unwrap(s.cur_zone))
                  ELSE s.pending_zones
    IN  [cur_zone |-> Some(DataZone_slack_zone), pending_zones |-> pushed]

DataZoneStream_begin_data_zone(s, ident) ==
    [DataZoneStream_end_data_zone(s) EXCEPT !.cur_zone = Some(DataZone_new(ident))]

DataZoneStream_resume_data_zone(s, ident, committed) ==
    [DataZoneStream_end_data_zone(s) EXCEPT
        !.cur_zone = Some(DataZone_for_resumption(ident, committed))]

\* pending zones in order, then the current zone
StreamZones(s) == s.pending_zones \o s.cur_zone

\* 0-based index of the first zone of zonelist with the identity, or None
StartMatch(zonelist, first_ident) ==
    LET hits == {i \in 1 .. Len(zonelist) : zonelist[i].ident = first_ident}
    IN  IF hits = {} THEN None
        ELSE Some((CHOOSE i \in hits : \A j \in hits : i <= j) - 1)

\* the closing `if let Some(maybe_slack) = zonelist.get(zonelist.len() - 1)`:
\* underflow records that `zonelist.len() - 1` was evaluated on an empty list
TrimTrailingSlack(zonelist) ==
    IF Len(zonelist) = 0
    THEN [zones |-> zonelist, underflow |-> TRUE]
    ELSE IF zonelist[Len(zonelist)].ident = None /\ zonelist[Len(zonelist)].length = 0
         THEN [zones |-> SubSeq(zonelist, 1, Len(zonelist) - 1), underflow |-> FALSE]
         ELSE [zones |-> zonelist, underflow |-> FALSE]

\* the Some(zonelist) arm once start_match is known (spanning.rs 265-309)
MergeFrom(s, zonelist, start_match) ==
    LET inner_ix == start_match + 1
        \* for (inner, mine) in inner_iter.zip(my_iter) { ...; break; }
        first_merge == IF s.pending_zones # <<>>
                       THEN DataZone_merge_zone(zonelist[inner_ix], s.pending_zones[1])
                       ELSE None
        merge_count == IF IsSome(first_merge) THEN 1 ELSE 0
        zl1 == IF IsSome(first_merge)
               THEN [zonelist EXCEPT ![inner_ix] = Unwrap(first_merge)]
               ELSE zonelist
        cur_ix == start_match + merge_count + 1
    IN  IF Len(s.pending_zones) < merge_count
        THEN zl1 \o SubSeq(s.pending_zones, merge_count + 1, Len(s.pending_zones))
                 \o s.cur_zone
        ELSE IF IsSome(s.cur_zone)
             THEN IF cur_ix <= Len(zl1)
                  THEN LET m == DataZone_merge_zone(zl1[cur_ix], Unwrap(s.cur_zone))
                       IN  IF IsSome(m)
                           THEN [zl1 EXCEPT ![cur_ix] = Unwrap(m)]
                           ELSE Append(zl1, Unwrap(s.cur_zone))
                  ELSE Append(zl1, Unwrap(s.cur_zone))
             ELSE zl1

\* chain is an Option<Vec<DataZone>>; returns the Vec and the underflow flag
DataZoneStream_uncommitted_writes(s, chain) ==
    IF IsSome(chain)
    THEN LET zonelist == Unwrap(chain)
             first_ident == IF s.pending_zones # <<>>
                            THEN Some(s.pending_zones[1].ident)
                            ELSE IF IsSome(s.cur_zone)
                                 THEN Some(Unwrap(s.cur_zone).ident)
                                 ELSE None
             start_match == IF IsSome(first_ident)
                            THEN StartMatch(zonelist, Unwrap(first_ident))
                            ELSE None
         IN  IF IsSome(first_ident)
             THEN IF IsSome(start_match)
                  THEN TrimTrailingSlack(MergeFrom(s, zonelist, Unwrap(start_match)))
                  ELSE TrimTrailingSlack(zonelist \o s.pending_zones \o s.cur_zone)
             ELSE TrimTrailingSlack(zonelist)
    ELSE [zones |-> s.pending_zones \o s.cur_zone, underflow |-> FALSE]

----------------------------------------------------------------------------
(* SpecZone: two DataZones driven through every DataZone operation *)

NoCall == [op |-> "none", arg |-> 0, pre |-> DataZone_slack_zone, ret |-> None,
           other |-> DataZone_slack_zone, merged |-> None, merged_rev |-> None]

\* the record of a call on zone_a
ZoneCall(op, arg, ret) == [NoCall EXCEPT !.op = op, !.arg = arg, !.pre = zone_a, !.ret = ret]


ZoneNew ==
    \E ident \in Idents :
        /\ zone_a' = DataZone_new(ident)
        /\ zone_last' = ZoneCall("new", ident, None)
        /\ UNCHANGED zone_b
        /\ UNCHANGED nonzone

ZoneForResumption ==
    \E ident \in Idents, committed \in 0 .. MaxLength :
        /\ zone_a' = DataZone_for_resumption(ident, committed)
        /\ zone_last' = ZoneCall("for_resumption", committed, None)
        /\ UNCHANGED zone_b
        /\ UNCHANGED nonzone

ZoneSlack ==
    /\ zone_a' = DataZone_slack_zone
    /\ zone_last' = ZoneCall("slack_zone", 0, None)
    /\ UNCHANGED zone_b
    /\ UNCHANGED nonzone

ZoneWriteThrough ==
    \E n \in Counts :
        /\ zone_a.length + n <= MaxLength
        /\ zone_a' = DataZone_write_through(zone_a, n)
        /\ zone_last' = ZoneCall("write_through", n, None)
        /\ UNCHANGED zone_b
        /\ UNCHANGED nonzone

ZoneWriteBuffered ==
    \E n \in Counts :
        /\ zone_a.length + n <= MaxLength
        /\ zone_a' = DataZone_write_buffered(zone_a, n)
        /\ zone_last' = ZoneCall("write_buffered", n, None)
        /\ UNCHANGED zone_b
        /\ UNCHANGED nonzone

ZoneWriteCommitted ==
    \E n \in Counts :
        LET r == DataZone_write_committed(zone_a, n)
        IN  /\ zone_a' = r.zone
            /\ zone_last' = ZoneCall("write_committed", n, r.ret)
            /\ UNCHANGED zone_b
            /\ UNCHANGED nonzone

\* the zone operated on so far is set aside and becomes the merge partner
ZoneSetAside ==
    /\ zone_b' = zone_a
    /\ zone_a' = zone_b
    /\ zone_last' = NoCall
    /\ UNCHANGED nonzone

ZoneMerge ==
    /\ UNCHANGED <<zone_a, zone_b>>
    /\ zone_last' = [NoCall EXCEPT !.op = "merge_zone", !.pre = zone_a, !.other = zone_b,
                                   !.merged = DataZone_merge_zone(zone_a, zone_b),
                                   !.merged_rev = DataZone_merge_zone(zone_b, zone_a)]
    /\ UNCHANGED nonzone

ZoneNext ==
    \/ ZoneNew
    \/ ZoneForResumption
    \/ ZoneSlack
    \/ ZoneWriteThrough
    \/ ZoneWriteBuffered
    \/ ZoneWriteCommitted
    \/ ZoneSetAside
    \/ ZoneMerge

----------------------------------------------------------------------------
(* SpecStream: one DataZoneStream driven through begin_data_zone,           *)
(* end_data_zone, write_buffered and write_committed, with the totals of    *)
(* what write_committed was given and gave back.                            *)

NoStreamCall == [op |-> "none", arg |-> 0, ret |-> None]

StreamCall(op, arg, ret) == [op |-> op, arg |-> arg, ret |-> ret]

NoSnapshot == [zones |-> <<>>, underflow |-> FALSE]


ZonesOf(s) == {StreamZones(s)[i] : i \in 1 .. Len(StreamZones(s))}

\* identities are unique within a stream (spanning.rs 128-131): the next zone
\* takes the smallest identity above every identity still in a ledger
FreshIdent(ident) ==
    LET used == {Unwrap(z.ident) : z \in {y \in ZonesOf(dzs) \cup ZonesOf(dzs_behind) :
                                              IsSome(y.ident)}}
    IN  /\ \A u \in used : u < ident
        /\ \A other \in Idents : (\A u \in used : u < other) => ident <= other

RECURSIVE SumLength(_)
SumLength(zones) ==
    IF zones = <<>> THEN 0 ELSE Head(zones).length + SumLength(Tail(zones))

RECURSIVE SumCommitted(_)
SumCommitted(zones) ==
    IF zones = <<>> THEN 0 ELSE Head(zones).committed_length + SumCommitted(Tail(zones))

RECURSIVE SumUncommitted(_)
SumUncommitted(zones) ==
    IF zones = <<>> THEN 0 ELSE Head(zones).uncommitted_length + SumUncommitted(Tail(zones))

\* the stream can take n more bytes within the model's bounds
Room(s, n) == SumLength(StreamZones(s)) + n <= MaxBytes

PipeRoom(s, n) == SumLength(StreamZones(s)) + n <= MaxPipeBytes

ghosts == <<commit_total, overhang_total, popped_total>>

StreamBegin ==
    \E ident \in Idents :
        /\ FreshIdent(ident)
        /\ Len(dzs.pending_zones) < MaxPending
        /\ dzs' = DataZoneStream_begin_data_zone(dzs, ident)
        /\ dzs_last' = StreamCall("begin_data_zone", 0, None)
        /\ snapshot' = NoSnapshot
        /\ UNCHANGED <<dzs_behind, ghosts>>
        /\ UNCHANGED nonstream

StreamEnd ==
    /\ Len(dzs.pending_zones) < MaxPending
    /\ dzs' = DataZoneStream_end_data_zone(dzs)
    /\ dzs_last' = StreamCall("end_data_zone", 0, None)
    /\ snapshot' = NoSnapshot
    /\ UNCHANGED <<dzs_behind, ghosts>>
    /\ UNCHANGED nonstream

StreamWriteBuffered ==
    \E n \in Counts :
        /\ Room(dzs, n)
        /\ dzs' = DataZoneStream_write_buffered(dzs, n)
        /\ dzs_last' = StreamCall("write_buffered", 0, None)
        /\ snapshot' = NoSnapshot
        /\ UNCHANGED <<dzs_behind, ghosts>>
        /\ UNCHANGED nonstream

StreamWriteCommitted ==
    \E n \in Counts :
        LET r == DataZoneStream_write_committed(dzs, n)
        IN  /\ commit_total + n <= MaxCommitTotal
            /\ dzs' = r.stream
            /\ dzs_last' = StreamCall("write_committed", n, r.ret)
            /\ snapshot' = NoSnapshot
            /\ commit_total' = commit_total + n
            /\ overhang_total' = overhang_total + (IF IsSome(r.ret) THEN Unwrap(r.ret) ELSE 0)
            /\ popped_total' = popped_total + SumCommitted(r.popped)
            /\ UNCHANGED dzs_behind
            /\ UNCHANGED nonstream

\* dzs.uncommitted_writes(None)
StreamSnapshot ==
    /\ snapshot' = DataZoneStream_uncommitted_writes(dzs, None)
    /\ dzs_last' = StreamCall("uncommitted_writes", 0, None)
    /\ UNCHANGED <<dzs, dzs_behind, ghosts>>
    /\ UNCHANGED nonstream

StreamNext ==
    \/ StreamBegin
    \/ StreamEnd
    \/ StreamWriteBuffered
    \/ StreamWriteCommitted
    \/ StreamSnapshot

----------------------------------------------------------------------------
(* SpecMerge: a DataZoneStream (dzs) above the stream of the stage below it *)
(* (dzs_behind), coupled the way BlockingWriter couples its ledger to its   *)
(* inner sink: begin/end reach both stages (blocking.rs 89-97), bytes the   *)
(* upper stage commits or writes through are the bytes the lower stage      *)
(* takes in (blocking.rs 73-77, 123-129), and the snapshot of dzs is        *)
(* chained onto the snapshot of dzs_behind (blocking.rs 99-102).            *)

PipeBegin ==
    \E ident \in Idents :
        /\ FreshIdent(ident)
        /\ Len(dzs.pending_zones) < MaxPending
        /\ Len(dzs_behind.pending_zones) < MaxPending
        /\ dzs' = DataZoneStream_begin_data_zone(dzs, ident)
        /\ dzs_behind' = DataZoneStream_begin_data_zone(dzs_behind, ident)
        /\ dzs_last' = NoStreamCall
        /\ snapshot' = NoSnapshot
        /\ UNCHANGED ghosts
        /\ UNCHANGED nonstream

PipeResume ==
    \E ident \in Idents, committed \in 1 .. MaxCount :
        /\ FreshIdent(ident)
        /\ Len(dzs.pending_zones) < MaxPending
        /\ PipeRoom(dzs, committed)
        /\ dzs' = DataZoneStream_resume_data_zone(dzs, ident, committed)
        /\ dzs_last' = NoStreamCall
        /\ snapshot' = NoSnapshot
        /\ UNCHANGED <<dzs_behind, ghosts>>
        /\ UNCHANGED nonstream

PipeEnd ==
    /\ Len(dzs.pending_zones) < MaxPending
    /\ Len(dzs_behind.pending_zones) < MaxPending
    /\ dzs' = DataZoneStream_end_data_zone(dzs)
    /\ dzs_behind' = DataZoneStream_end_data_zone(dzs_behind)
    /\ dzs_last' = NoStreamCall
    /\ snapshot' = NoSnapshot
    /\ UNCHANGED ghosts
    /\ UNCHANGED nonstream

PipeWriteBuffered ==
    \E n \in 1 .. MaxCount :
        /\ PipeRoom(dzs, n)
        /\ dzs' = DataZoneStream_write_buffered(dzs, n)
        /\ dzs_last' = NoStreamCall
        /\ snapshot' = NoSnapshot
        /\ UNCHANGED <<dzs_behind, ghosts>>
        /\ UNCHANGED nonstream

PipeWriteThrough ==
    \E n \in 1 .. MaxCount :
        /\ PipeRoom(dzs, n)
        /\ PipeRoom(dzs_behind, n)
        /\ dzs' = DataZoneStream_write_through(dzs, n)
        /\ dzs_behind' = DataZoneStream_write_buffered(dzs_behind, n)
        /\ dzs_last' = NoStreamCall
        /\ snapshot' = NoSnapshot
        /\ UNCHANGED ghosts
        /\ UNCHANGED nonstream

PipeWriteCommitted ==
    \E n \in 1 .. MaxCount :
        /\ PipeRoom(dzs_behind, n)
        /\ dzs' = DataZoneStream_write_committed(dzs, n).stream
        /\ dzs_behind' = DataZoneStream_write_buffered(dzs_behind, n)
        /\ dzs_last' = NoStreamCall
        /\ snapshot' = NoSnapshot
        /\ UNCHANGED ghosts
        /\ UNCHANGED nonstream

BehindWriteCommitted ==
    \E n \in 1 .. MaxCount :
        /\ dzs_behind' = DataZoneStream_write_committed(dzs_behind, n).stream
        /\ dzs_last' = NoStreamCall
        /\ snapshot' = NoSnapshot
        /\ UNCHANGED <<dzs, ghosts>>
        /\ UNCHANGED nonstream

\* dzs.uncommitted_writes(Some(dzs_behind.uncommitted_writes(None)))
PipeSnapshot ==
    LET chain == Some(DataZoneStream_uncommitted_writes(dzs_behind, None).zones)
    IN  /\ snapshot' = DataZoneStream_uncommitted_writes(dzs, chain)
        /\ dzs_last' = StreamCall("uncommitted_writes", 1, None)
        /\ UNCHANGED <<dzs, dzs_behind, ghosts>>
        /\ UNCHANGED nonstream

MergeNext ==
    \/ PipeBegin
    \/ PipeResume
    \/ PipeEnd
    \/ PipeWriteBuffered
    \/ PipeWriteThrough
    \/ PipeWriteCommitted
    \/ BehindWriteCommitted
    \/ PipeSnapshot

----------------------------------------------------------------------------
(* BlockingWriter: blocking.rs 9-169 *)

\* The inner sink W. data: the bytes it has taken; calls: the write calls made
\* on it since the writer's current operation began, each with the offset it
\* started at, its length, the path it came by and the bytes the record buffer
\* held at that moment. The sinks a BlockingWriter is given in this repository
\* (ConcurrentWriteBuffer::write, io::Cursor, LimitingWriter::write) take a
\* buffer whole or not at all; ok_left and fault say how the sink answers
\* during the current operation: ok_left calls are taken, the next one is
\* answered with fault ("zero": Ok(0), "err": Err), "none": every call is taken.
Inner_new == [data |-> <<>>, calls |-> <<>>, ok_left |-> 0, fault |-> "none"]

Inner_write(inner, buf, via, held) ==
    LET call == [offset |-> Len(inner.data), len |-> Len(buf), via |-> via, held |-> held]
    IN  IF inner.fault = "none" \/ inner.ok_left > 0
        THEN [inner |-> [inner EXCEPT !.data = @ \o buf, !.calls = Append(@, call),
                                      !.ok_left = IF @ > 0 THEN @ - 1 ELSE 0],
              ret |-> "ok", n |-> Len(buf)]
        ELSE [inner |-> [inner EXCEPT !.calls = Append(@, call)],
              ret |-> IF inner.fault = "zero" THEN "ok" ELSE "err", n |-> 0]

\* io::Write::write_all on the inner sink for one buffer: Ok(0) becomes Err(WriteZero)
Inner_write_all(inner, buf, via, held) ==
    LET Taken(r) == [inner |-> r.inner,
                     ret |-> IF r.ret = "ok" /\ r.n > 0 THEN "ok" ELSE "err"]
    IN  Taken(Inner_write(inner, buf, via, held))

Inner_flush(inner) ==
    IF inner.fault = "err" /\ inner.ok_left = 0 THEN "err" ELSE "ok"

BlockingWriter_new_with_factor(factor) ==
    [blocking_factor |-> factor * BlockBytes, inner |-> Inner_new, block |-> <<>>,
     datazone_stream |-> DataZoneStream_new]

\* returns the writer and the part of buf that did not fit (None if all did)
BlockingWriter_fill_block(w, buf) ==
    LET Fill(block_space) ==
            IF block_space >= Len(buf)
            THEN [w |-> [w EXCEPT !.block = @ \o buf,
                                  !.datazone_stream =
                                      DataZoneStream_write_buffered(@, Len(buf))],
                  ret |-> None]
            ELSE [w |-> [w EXCEPT !.block = @ \o SubSeq(buf, 1, block_space),
                                  !.datazone_stream =
                                      DataZoneStream_write_buffered(@, block_space)],
                  ret |-> Some(SubSeq(buf, block_space + 1, Len(buf)))]
    IN  Fill(w.blocking_factor - Len(w.block))

\* an empty_block that forwards the record without crediting the ledger
Mut_BlockingWriter_empty_block(w) ==
    LET Emptied(r) ==
            IF r.ret = "ok"
            THEN [w |-> [w EXCEPT !.inner = r.inner, !.block = <<>>], ret |-> "ok"]
            ELSE [w |-> [w EXCEPT !.inner = r.inner], ret |-> "err"]
    IN  IF Len(w.block) >= w.blocking_factor
        THEN Emptied(Inner_write_all(w.inner, SubSeq(w.block, 1, w.blocking_factor),
                                     "block", Len(w.block)))
        ELSE [w |-> w, ret |-> "ok"]

BlockingWriter_empty_block(w) ==
    LET Emptied(r) ==
            IF r.ret = "ok"
            THEN [w |-> [w EXCEPT !.inner = r.inner, !.block = <<>>,
                                  !.datazone_stream =
                                      DataZoneStream_write_committed(
                                          @, w.blocking_factor).stream],
                  ret |-> "ok"]
            ELSE [w |-> [w EXCEPT !.inner = r.inner], ret |-> "err"]
    IN  IF Len(w.block) >= w.blocking_factor
        THEN Emptied(Inner_write_all(w.inner, SubSeq(w.block, 1, w.blocking_factor),
                                     "block", Len(w.block)))
        ELSE [w |-> w, ret |-> "ok"]

\* the `while shortcircuit_writes <= buf.len() - blocking_factor` loop of write;
\* "hung": the sink answered Ok(0), the counter did not move and the loop
\* offers it the same slice again without end
RECURSIVE ShortCircuit(_, _, _)
ShortCircuit(w, buf, shortcircuit_writes) ==
    LET Written(r) ==
            IF r.ret = "err"
            THEN [w |-> [w EXCEPT !.inner = r.inner], ret |-> "err", n |-> 0]
            ELSE IF r.n = 0
                 THEN [w |-> [w EXCEPT !.inner = r.inner], ret |-> "hung", n |-> 0]
                 ELSE ShortCircuit([w EXCEPT !.inner = r.inner,
                                             !.datazone_stream =
                                                 DataZoneStream_write_through(@, r.n)],
                                   buf, shortcircuit_writes + r.n)
    IN  IF shortcircuit_writes <= Len(buf) - w.blocking_factor
        THEN Written(Inner_write(w.inner,
                                 SubSeq(buf, shortcircuit_writes + 1,
                                        shortcircuit_writes + w.blocking_factor),
                                 "shortcut", Len(w.block)))
        ELSE [w |-> w, ret |-> "ok", n |-> shortcircuit_writes]

\* the tail of write once the record buffer has been emptied: copy into the
\* record buffer and report how much of buf was taken
BlockingWriter_write_fill(w, buf) ==
    LET Filled(f) ==
            [w |-> f.w, ret |-> "ok",
             n |-> Len(buf) - (IF IsSome(f.ret) THEN Len(Unwrap(f.ret)) ELSE 0)]
    IN  Filled(BlockingWriter_fill_block(w, buf))

\* a write that takes the shortcut whenever the buffer holds a whole record,
\* whatever the record buffer holds
Mut_BlockingWriter_write(w, buf) ==
    LET Emptied(e) ==
            IF e.ret # "ok"
            THEN [w |-> e.w, ret |-> "err", n |-> 0]
            ELSE IF Len(buf) = 0
                 THEN [w |-> e.w, ret |-> "ok", n |-> 0]
                 ELSE IF Len(buf) >= e.w.blocking_factor
                      THEN ShortCircuit(e.w, buf, 0)
                      ELSE BlockingWriter_write_fill(e.w, buf)
    IN  Emptied(BlockingWriter_empty_block(w))

\* returns the writer, how the call ended and the byte count of Ok(n)
BlockingWriter_write(w, buf) ==
    LET Emptied(e) ==
            IF e.ret # "ok"
            THEN [w |-> e.w, ret |-> "err", n |-> 0]
            ELSE IF Len(buf) = 0
                 THEN [w |-> e.w, ret |-> "ok", n |-> 0]
                 ELSE IF Len(e.w.block) = 0 /\ Len(buf) >= e.w.blocking_factor
                      THEN ShortCircuit(e.w, buf, 0)
                      ELSE BlockingWriter_write_fill(e.w, buf)
    IN  Emptied(BlockingWriter_empty_block(w))

\* io::Write::write_all on the BlockingWriter: write until the buffer is used up
RECURSIVE BlockingWriter_write_all(_, _)
BlockingWriter_write_all(w, buf) ==
    LET Written(r) ==
            IF r.ret # "ok"
            THEN [w |-> r.w, ret |-> r.ret]
            ELSE IF r.n = 0
                 THEN [w |-> r.w, ret |-> "err"]
                 ELSE BlockingWriter_write_all(r.w, SubSeq(buf, r.n + 1, Len(buf)))
    IN  IF buf = <<>>
        THEN [w |-> w, ret |-> "ok"]
        ELSE Written(BlockingWriter_write(w, buf))

BlockingWriter_begin_data_zone(w, ident) ==
    [w EXCEPT !.datazone_stream = DataZoneStream_begin_data_zone(@, ident)]

BlockingWriter_end_data_zone(w) ==
    [w EXCEPT !.datazone_stream = DataZoneStream_end_data_zone(@)]

\* over an inner sink that buffers nothing (UnbufferedWriter), whose own list is empty
BlockingWriter_uncommitted_writes(w) ==
    DataZoneStream_uncommitted_writes(w.datazone_stream, Some(<<>>))

Zeros(n) == [i \in 1 .. n |-> 0]

\* the end of flush: empty the record buffer, then flush the inner sink
BlockingWriter_flush_block(w) ==
    LET Emptied(e) ==
            IF e.ret # "ok"
            THEN [w |-> e.w, ret |-> "err"]
            ELSE [w |-> e.w, ret |-> Inner_flush(e.w.inner)]
    IN  Emptied(BlockingWriter_empty_block(w))

\* a flush that does not pad the record buffer
Mut_BlockingWriter_flush(w) ==
    BlockingWriter_flush_block(BlockingWriter_end_data_zone(w))

BlockingWriter_flush(w) ==
    LET Padded(ended) ==
            IF Len(ended.block) < ended.blocking_factor
            THEN [ended EXCEPT !.block =
                      @ \o Zeros(ended.blocking_factor - Len(ended.block))]
            ELSE ended
    IN  BlockingWriter_flush_block(Padded(BlockingWriter_end_data_zone(w)))

----------------------------------------------------------------------------
(* SpecBW: one BlockingWriter driven through write_all, flush,              *)
(* begin_data_zone and end_data_zone over a sink that may refuse or fail.   *)

NoBWCall == [op |-> "none", ret |-> "ok"]

\* the inner sink as an operation finds it: no calls logged yet, and the way
\* it will answer during the operation
Armed(w, ok_left, fault) ==
    [w EXCEPT !.inner = [@ EXCEPT !.calls = <<>>, !.ok_left = ok_left, !.fault = fault]]

\* the inner sink once the operation is over
Disarmed(w) ==
    [w EXCEPT !.inner = [@ EXCEPT !.ok_left = 0, !.fault = "none"]]

\* the bytes handed to the writer are numbered from 1, which tells them from padding
NextBytes(n) == [i \in 1 .. n |-> bw_input + i]

\* most inner calls one operation can make
MaxCalls == (MaxWriteLen \div BlockBytes) + 1

Plans == {[ok_left |-> 0, fault |-> "none"]}
             \cup [ok_left : 0 .. MaxCalls, fault : {"zero", "err"}]

BWRunning == bw_last.ret # "hung"

BWNewWithFactor ==
    \E factor \in 1 .. MaxFactor :
        /\ bw_last = NoBWCall
        /\ bw_input = 0
        /\ bw.datazone_stream = DataZoneStream_new
        /\ bw.blocking_factor # factor * BlockBytes
        /\ bw' = BlockingWriter_new_with_factor(factor)
        /\ UNCHANGED <<bw_input, bw_written, bw_last, bw_faults, bw_failed, bw_phase, bw_flushes>>
        /\ UNCHANGED nonbw

BWWriteAll ==
    \E len \in 1 .. MaxWriteLen, plan \in Plans :
        \E r \in {BlockingWriter_write_all(Armed(bw, plan.ok_left, plan.fault),
                                           NextBytes(len))} :
            /\ BWRunning
            /\ bw_input + len <= MaxInput
            /\ plan.fault # "none" => bw_faults < MaxFaults
            \* a plan is told from the others by the calls it answers
            /\ plan.fault # "none" => r.ret # "ok"
            /\ bw' = Disarmed(r.w)
            /\ bw_input' = bw_input + len
            /\ bw_written' = IF r.ret = "err" THEN bw_written
                              ELSE bw_written \o NextBytes(len)
            /\ bw_last' = [op |-> "write_all", ret |-> r.ret]
            /\ bw_faults' = bw_faults + (IF r.ret # "ok" THEN 1 ELSE 0)
            /\ bw_failed' = (bw_failed \/ r.ret = "err")
            /\ bw_phase' = IF bw_phase = "writing" THEN "writing" ELSE "after"
            /\ UNCHANGED bw_flushes
            /\ UNCHANGED nonbw

BWFlush ==
    \E plan \in Plans :
        \E r \in {BlockingWriter_flush(Armed(bw, plan.ok_left, plan.fault))} :
            /\ BWRunning
            /\ bw_flushes < MaxFlushes
            /\ bw_flushes' = bw_flushes + 1
            /\ plan.fault # "none" => bw_faults < MaxFaults
            /\ plan.fault # "none" => r.ret # "ok"
            /\ bw' = Disarmed(r.w)
            /\ bw_last' = [op |-> "flush", ret |-> r.ret]
            /\ bw_faults' = bw_faults + (IF r.ret # "ok" THEN 1 ELSE 0)
            /\ bw_failed' = (bw_failed \/ r.ret = "err")
            /\ bw_phase' = IF bw_phase = "writing" /\ r.ret = "ok" THEN "flushed" ELSE "after"
            /\ UNCHANGED <<bw_input, bw_written>>
            /\ UNCHANGED nonbw

BWZonesBegun ==
    Cardinality({i \in 1 .. Len(StreamZones(bw.datazone_stream)) :
                    IsSome(StreamZones(bw.datazone_stream)[i].ident)})

BWBeginDataZone ==
    \E ident \in Idents :
        /\ BWRunning
        /\ BWZonesBegun < MaxBWZones
        /\ Len(bw.datazone_stream.pending_zones) < MaxBWZones
        /\ \A i \in 1 .. Len(StreamZones(bw.datazone_stream)) :
               StreamZones(bw.datazone_stream)[i].ident # Some(ident)
        /\ \A other \in 1 .. ident - 1 :
               \E i \in 1 .. Len(StreamZones(bw.datazone_stream)) :
                   StreamZones(bw.datazone_stream)[i].ident = Some(other)
        /\ bw' = [BlockingWriter_begin_data_zone(bw, ident) EXCEPT !.inner.calls = <<>>]
        /\ bw_last' = [op |-> "begin_data_zone", ret |-> "ok"]
        /\ UNCHANGED <<bw_input, bw_written, bw_faults, bw_failed, bw_phase, bw_flushes>>
        /\ UNCHANGED nonbw

BWEndDataZone ==
    /\ BWRunning
    /\ Len(bw.datazone_stream.pending_zones) < MaxBWZones
    /\ bw' = [BlockingWriter_end_data_zone(bw) EXCEPT !.inner.calls = <<>>]
    /\ bw_last' = [op |-> "end_data_zone", ret |-> "ok"]
    /\ UNCHANGED <<bw_input, bw_written, bw_faults, bw_failed, bw_phase, bw_flushes>>
    /\ UNCHANGED nonbw

BWNext ==
    \/ BWNewWithFactor
    \/ BWWriteAll
    \/ BWFlush
    \/ BWBeginDataZone
    \/ BWEndDataZone

----------------------------------------------------------------------------
(* ConcurrentWriteBuffer: concurrentbuf.rs 8-266 *)

\* A record travelling to the medium: a header (with recovery_seek_offset, if
\* it carries one), the ix-th data record of a file, or the end-of-archive marker.
Header(file, seek) == [kind |-> "hdr", file |-> file, ix |-> 0, seek |-> seek, len |-> HeaderLen]

Data(file, ix) == [kind |-> "data", file |-> file, ix |-> ix, seek |-> None, len |-> 1]

EndOfArchive == [kind |-> "eof", file |-> 0, ix |-> 0, seek |-> None, len |-> EofLen]

\* ConcurrentCommand / ConcurrentResponse; data is the buffer of DoWriteAll
Command(op, data) == [op |-> op, data |-> data]

Response(op, ret, size) == [op |-> op, ret |-> ret, size |-> size]

ConcurrentWriteBuffer_new(limit) ==
    [buffered_size |-> 0, buffered_limit |-> limit, current_data_zone |-> None,
     uncommitted_data_zones |-> <<>>, cmd_send |-> <<>>, resp_recv |-> <<>>]

\* The `for zone in &mut self.uncommitted_data_zones` loop of mark_data_committed,
\* standing before zone i: a zone that returns an overhang is counted in
\* first_uncommitted, the first that returns None ends the loop and leaves
\* commit_remain as it was.
RECURSIVE CommitZones(_, _, _)
CommitZones(zones, i, commit_remain) ==
    LET Visited(r) ==
            IF IsSome(r.ret)
            THEN CommitZones([zones EXCEPT ![i] = r.zone], i + 1, Unwrap(r.ret))
            ELSE [zones |-> [zones EXCEPT ![i] = r.zone], commit_remain |-> commit_remain,
                  first_uncommitted |-> i - 1]
    IN  IF i > Len(zones)
        THEN [zones |-> zones, commit_remain |-> commit_remain, first_uncommitted |-> i - 1]
        ELSE Visited(DataZone_write_committed(zones[i], commit_remain))

ConcurrentWriteBuffer_mark_data_committed(b, committed_size) ==
    LET Marked(c) ==
            [b EXCEPT !.uncommitted_data_zones =
                          SubSeq(c.zones, c.first_uncommitted + 1, Len(c.zones)),
                      !.current_data_zone =
                          IF c.commit_remain > 0 /\ IsSome(@)
                          THEN Some(DataZone_write_committed(Unwrap(@), c.commit_remain).zone)
                          ELSE @,
                      !.buffered_size = @ - committed_size]
    IN  Marked(CommitZones(b.uncommitted_data_zones, 1, committed_size))

ConcurrentWriteBuffer_mark_data_buffered(b, buffered_size) ==
    [b EXCEPT !.current_data_zone =
                  IF IsSome(@) THEN Some(DataZone_write_buffered(Unwrap(@), buffered_size))
                  ELSE @,
              !.buffered_size = @ + buffered_size]

\* the condition of drain_buf_until_space's loop: the caller has to receive a response
ConcurrentWriteBuffer_must_drain(b, needed_space) ==
    /\ needed_space < b.buffered_limit
    /\ b.buffered_size + needed_space > b.buffered_limit

\* a write that puts its command in front of the queued ones
Mut_ConcurrentWriteBuffer_write(b, buf) ==
    [ConcurrentWriteBuffer_mark_data_buffered(b, buf.len)
        EXCEPT !.cmd_send = <<Command("DoWriteAll", Some(buf))>> \o @]

\* write, once drain_buf_until_space has returned Ok
ConcurrentWriteBuffer_write(b, buf) ==
    [ConcurrentWriteBuffer_mark_data_buffered(b, buf.len)
        EXCEPT !.cmd_send = Append(@, Command("DoWriteAll", Some(buf)))]

\* flush, up to the wait for the response
ConcurrentWriteBuffer_flush(b) ==
    [b EXCEPT !.cmd_send = Append(@, Command("DoFlush", None))]

ConcurrentWriteBuffer_end_data_zone(b) ==
    [b EXCEPT !.uncommitted_data_zones = @ \o b.current_data_zone,
              !.current_data_zone = None,
              !.cmd_send = Append(@, Command("DoEndDataZone", None))]

ConcurrentWriteBuffer_begin_data_zone(b, ident) ==
    [ConcurrentWriteBuffer_end_data_zone(b)
        EXCEPT !.current_data_zone = Some(DataZone_new(ident)),
               !.cmd_send = Append(@, Command("DoBeginDataZone", None))]

\* the medium below keeps no ledger (RecoverableWrite's default): its list is empty
ConcurrentWriteBuffer_uncommitted_writes(b) ==
    <<>> \o b.uncommitted_data_zones \o b.current_data_zone

\* A medium of cap records. It takes a buffer whole or, when the buffer does not
\* fit, takes nothing and answers Ok(0), which write_all reports as WriteZero.
Volume(cap) == [cap |-> cap, used |-> 0, content |-> <<>>]

Volume_write_all(vol, buf) ==
    IF vol.used + buf.len <= vol.cap
    THEN [vol |-> [vol EXCEPT !.used = @ + buf.len, !.content = Append(@, buf)],
          ret |-> "ok"]
    ELSE [vol |-> vol, ret |-> "WriteZero"]

\* the response command_task_write sends for a command, given the result of the write
command_task_write(cmd, ret) ==
    CASE cmd.op = "DoWriteAll" -> Response("DidWriteAll", ret, Unwrap(cmd.data).len)
      [] cmd.op = "DoFlush" -> Response("DidFlush", "ok", 0)
      [] cmd.op = "DoBeginDataZone" -> Response("DidBeginDataZone", "ok", 0)
      [] cmd.op = "DoEndDataZone" -> Response("DidEndDataZone", "ok", 0)

----------------------------------------------------------------------------
(* The create driver, with and without spanning: rapidtar.rs 114-308,      *)
(* tar/recovery.rs 72-147. The traversal hands over the files 1..NumFiles,  *)
(* each a regular file of FileSize records.                                 *)

Files == 1 .. NumFiles

\* room for every entry and the end-of-archive marker
Unlimited == NumFiles * (HeaderLen + FileSize) + EofLen

Capacities == (0 .. MaxCap) \cup {Unlimited}

RecoveryEntry_new(path, header_length) == [path |-> path, header_length |-> header_length]

\* `offset` of recover_data
recovery_seek_offset(format, zone) ==
    IF format = "USTAR"
    THEN 0
    ELSE IF zone.committed_length >= Unwrap(zone.ident).header_length
         THEN zone.committed_length - Unwrap(zone.ident).header_length
         ELSE 0

\* the files named by a list of zones
LostFiles(zones) ==
    {Unwrap(zones[i].ident).path : i \in {j \in 1 .. Len(zones) : IsSome(zones[j].ident)}}

\* the record at position pos of the entry being written
EntryRecord(file, pos, seek) == IF pos = 0 THEN Header(file, seek) ELSE Data(file, pos)

\* the position after pos, for an entry whose data starts behind `offset` records
EntryNext(pos, offset) == IF pos = 0 THEN offset + 1 ELSE pos + 1

\* a main that enters recovery whether or not spanning is on
Mut_main_on_error(kind, spanning) ==
    IF kind = "WriteZero" THEN "recover_proc" ELSE "serialize_proc"

\* the arm main's loop takes when serialize_proc has returned Err of this kind
main_on_error(kind, spanning) ==
    IF kind = "WriteZero"
    THEN IF spanning THEN "recover_proc" ELSE "stopped"
    ELSE "serialize_proc"

\* the worker thread of the sink: command_task_write takes one command
WorkerWrite ==
    /\ sink.cmd_send # <<>>
    /\ Head(sink.cmd_send).op = "DoWriteAll"
    /\ volumes # <<>>
    /\ \E w \in {Volume_write_all(volumes[Len(volumes)], Unwrap(Head(sink.cmd_send).data))} :
           /\ volumes' = [volumes EXCEPT ![Len(volumes)] = w.vol]
           /\ sink' = [sink EXCEPT !.cmd_send = Tail(@),
                                   !.resp_recv = Append(@, command_task_write(
                                                              Head(sink.cmd_send), w.ret))]
    /\ UNCHANGED <<rt_format, rt_pc, rt_next, rt_file, rt_pos, rt_offset, rt_lost, rt_iter,
                   rt_torn>>
    /\ UNCHANGED <<rt_spanning, rt_reported, rt_faults>>
    /\ UNCHANGED nonrec

\* the same, the medium answering with an error that is not WriteZero; such
\* errors are let happen while entries are serialized and the archive is closed
WorkerWriteFault ==
    /\ rt_pc \in {"serialize_proc", "serialize", "close_tarball", "flush"}
    /\ sink.cmd_send # <<>>
    /\ Head(sink.cmd_send).op = "DoWriteAll"
    /\ volumes # <<>>
    /\ rt_faults < MaxFaults
    /\ rt_faults' = rt_faults + 1
    /\ sink' = [sink EXCEPT !.cmd_send = Tail(@),
                            !.resp_recv = Append(@, command_task_write(
                                                       Head(sink.cmd_send), "Other"))]
    /\ UNCHANGED <<rt_format, rt_pc, rt_next, rt_file, rt_pos, rt_offset, rt_lost, rt_iter,
                   rt_torn, volumes, rt_spanning, rt_reported>>
    /\ UNCHANGED nonrec

WorkerOther ==
    /\ sink.cmd_send # <<>>
    /\ Head(sink.cmd_send).op # "DoWriteAll"
    /\ sink' = [sink EXCEPT !.cmd_send = Tail(@),
                            !.resp_recv = Append(@, command_task_write(
                                                       Head(sink.cmd_send), "ok"))]
    /\ UNCHANGED <<rt_format, rt_pc, rt_next, rt_file, rt_pos, rt_offset, rt_lost, rt_iter,
                   rt_torn, volumes>>
    /\ UNCHANGED <<rt_spanning, rt_reported, rt_faults>>
    /\ UNCHANGED nonrec

\* main: from_proc_args, open_sink on the first volume
Main ==
    \E format \in {"USTAR", "POSIX"}, spanning \in BOOLEAN, cap \in Capacities :
        /\ rt_pc = "main"
        /\ rt_format' = format
        /\ rt_spanning' = spanning
        /\ volumes' = <<Volume(cap)>>
        /\ sink' = ConcurrentWriteBuffer_new(BufLimit)
        /\ rt_pc' = "serialize_proc"
        /\ UNCHANGED <<rt_next, rt_file, rt_pos, rt_offset, rt_lost, rt_iter, rt_torn>>
        /\ UNCHANGED <<rt_reported, rt_faults>>
        /\ UNCHANGED nonrec

\* serialize_proc: receiver.recv() yields an entry; with spanning its data
\* zone begins
SerializeProcEntry ==
    /\ rt_pc = "serialize_proc"
    /\ rt_next < NumFiles
    /\ rt_next' = rt_next + 1
    /\ rt_file' = rt_next + 1
    /\ rt_pos' = 0
    /\ rt_offset' = 0
    /\ sink' = IF rt_spanning
               THEN ConcurrentWriteBuffer_begin_data_zone(
                        sink, RecoveryEntry_new(rt_next + 1, HeaderLen))
               ELSE sink
    /\ rt_pc' = "serialize"
    /\ UNCHANGED <<rt_format, rt_lost, rt_iter, rt_torn, volumes>>
    /\ UNCHANGED <<rt_spanning, rt_reported, rt_faults>>
    /\ UNCHANGED nonrec

\* serialize_proc: the channel is closed, serialize_proc returns Ok and
\* close_tarball begins
SerializeProcEnd ==
    /\ rt_pc = "serialize_proc"
    /\ rt_next = NumFiles
    /\ rt_pc' = "close_tarball"
    /\ UNCHANGED <<rt_format, rt_next, rt_file, rt_pos, rt_offset, rt_lost, rt_iter, rt_torn,
                   sink, volumes>>
    /\ UNCHANGED <<rt_spanning, rt_reported, rt_faults>>
    /\ UNCHANGED nonrec

\* tar::serialize: one write of the header or of a data record
SerializeWrite ==
    /\ rt_pc = "serialize"
    /\ ~ConcurrentWriteBuffer_must_drain(sink, 1)
    /\ sink' = ConcurrentWriteBuffer_write(sink, EntryRecord(rt_file, rt_pos, None))
    /\ rt_pos' = EntryNext(rt_pos, 0)
    /\ rt_pc' = IF EntryNext(rt_pos, 0) > FileSize THEN "serialize_proc" ELSE "serialize"
    /\ UNCHANGED <<rt_format, rt_next, rt_file, rt_offset, rt_lost, rt_iter, rt_torn, volumes>>
    /\ UNCHANGED <<rt_spanning, rt_reported, rt_faults>>
    /\ UNCHANGED nonrec

\* recover_data: one write of the recovery header or of a data record
RecoverWrite ==
    /\ rt_pc = "recover"
    /\ ~ConcurrentWriteBuffer_must_drain(sink, 1)
    /\ sink' = ConcurrentWriteBuffer_write(
                   sink, EntryRecord(rt_file, rt_pos,
                                     IF rt_format = "POSIX" THEN Some(rt_offset) ELSE None))
    /\ rt_pos' = EntryNext(rt_pos, rt_offset)
    /\ rt_pc' = IF EntryNext(rt_pos, rt_offset) > FileSize THEN "recover_data" ELSE "recover"
    /\ UNCHANGED <<rt_format, rt_next, rt_file, rt_offset, rt_lost, rt_iter, rt_torn, volumes>>
    /\ UNCHANGED <<rt_spanning, rt_reported, rt_faults>>
    /\ UNCHANGED nonrec

\* drain_buf_until_space inside a write of serialize or recover_data receives
\* DidWriteAll(Ok(size)), or a response it passes over
DrainBufUntilSpace ==
    /\ rt_pc \in {"serialize", "recover", "close_tarball"}
    /\ ConcurrentWriteBuffer_must_drain(sink, IF rt_pc = "close_tarball" THEN EofLen ELSE 1)
    /\ sink.resp_recv # <<>>
    /\ Head(sink.resp_recv).ret = "ok"
    /\ sink' = IF Head(sink.resp_recv).op = "DidWriteAll"
               THEN [ConcurrentWriteBuffer_mark_data_committed(sink, Head(sink.resp_recv).size)
                        EXCEPT !.resp_recv = Tail(@)]
               ELSE [sink EXCEPT !.resp_recv = Tail(@)]
    /\ UNCHANGED <<rt_format, rt_pc, rt_next, rt_file, rt_pos, rt_offset, rt_lost, rt_iter,
                   rt_torn, volumes>>
    /\ UNCHANGED <<rt_spanning, rt_reported, rt_faults>>
    /\ UNCHANGED nonrec

\* drain_buf_until_space receives DidWriteAll(Err(e)) inside serialize and
\* serialize_proc returns Err(e)
SerializeProcFails ==
    /\ rt_pc = "serialize"
    /\ ConcurrentWriteBuffer_must_drain(sink, 1)
    /\ sink.resp_recv # <<>>
    /\ Head(sink.resp_recv).ret # "ok"

\* a line main prints on stderr about an entry
Reported(file, msg) == [file |-> file, msg |-> msg]

\* serialize_proc returns Err(WriteZero), spanning is on: main enters
\* recover_proc, which takes the sink's uncommitted writes
SerializeWriteZero ==
    /\ SerializeProcFails
    /\ main_on_error(Head(sink.resp_recv).ret, rt_spanning) = "recover_proc"
    /\ sink' = [sink EXCEPT !.resp_recv = Tail(@)]
    /\ rt_lost' = ConcurrentWriteBuffer_uncommitted_writes(sink)
    /\ rt_torn' = rt_torn \cup LostFiles(ConcurrentWriteBuffer_uncommitted_writes(sink))
    /\ rt_pc' = "recover_proc"
    /\ UNCHANGED <<rt_format, rt_next, rt_file, rt_pos, rt_offset, rt_iter, volumes>>
    /\ UNCHANGED <<rt_spanning, rt_reported, rt_faults>>
    /\ UNCHANGED nonrec

\* serialize_proc returns Err(WriteZero), spanning is off: main names the
\* entry and leaves its loop
SerializeOutOfSpace ==
    /\ SerializeProcFails
    /\ main_on_error(Head(sink.resp_recv).ret, rt_spanning) = "stopped"
    /\ sink' = [sink EXCEPT !.resp_recv = Tail(@)]
    /\ rt_reported' = rt_reported \cup {Reported(rt_file, "Ran out of space archiving file")}
    /\ rt_pc' = "stopped"
    /\ UNCHANGED <<rt_format, rt_next, rt_file, rt_pos, rt_offset, rt_lost, rt_iter, rt_torn,
                   volumes, rt_spanning, rt_faults>>
    /\ UNCHANGED nonrec

\* serialize_proc returns an error of another kind: main names the entry and
\* goes round its loop, calling serialize_proc again
SerializeError ==
    /\ SerializeProcFails
    /\ main_on_error(Head(sink.resp_recv).ret, rt_spanning) = "serialize_proc"
    /\ sink' = [sink EXCEPT !.resp_recv = Tail(@)]
    /\ rt_reported' = rt_reported \cup {Reported(rt_file, "Error archiving file")}
    /\ rt_pc' = "serialize_proc"
    /\ UNCHANGED <<rt_format, rt_next, rt_file, rt_pos, rt_offset, rt_lost, rt_iter, rt_torn,
                   volumes, rt_spanning, rt_faults>>
    /\ UNCHANGED nonrec

\* a recover_data that returns the new sink's uncommitted writes alone and
\* forgets the zones it had not reached
Mut_RecoverWriteZero ==
    /\ rt_pc = "recover"
    /\ ConcurrentWriteBuffer_must_drain(sink, 1)
    /\ sink.resp_recv # <<>>
    /\ Head(sink.resp_recv).ret # "ok"
    /\ sink' = [sink EXCEPT !.resp_recv = Tail(@)]
    /\ rt_lost' = ConcurrentWriteBuffer_uncommitted_writes(sink)
    /\ rt_torn' = rt_torn \cup LostFiles(ConcurrentWriteBuffer_uncommitted_writes(sink))
    /\ rt_pc' = "recover_proc"
    /\ UNCHANGED <<rt_format, rt_next, rt_file, rt_pos, rt_offset, rt_iter, volumes>>
    /\ UNCHANGED <<rt_spanning, rt_reported, rt_faults>>
    /\ UNCHANGED nonrec

\* an error of any kind inside recover_data: it leaves its loop with
\* outstanding_entry set and returns the new sink's uncommitted writes, then the
\* zones it had not reached
RecoverWriteZero ==
    /\ rt_pc = "recover"
    /\ ConcurrentWriteBuffer_must_drain(sink, 1)
    /\ sink.resp_recv # <<>>
    /\ Head(sink.resp_recv).ret # "ok"
    /\ sink' = [sink EXCEPT !.resp_recv = Tail(@)]
    /\ rt_lost' = ConcurrentWriteBuffer_uncommitted_writes(sink)
                      \o SubSeq(rt_lost, rt_iter, Len(rt_lost))
    /\ rt_torn' = rt_torn \cup LostFiles(ConcurrentWriteBuffer_uncommitted_writes(sink))
    /\ rt_pc' = "recover_proc"
    /\ UNCHANGED <<rt_format, rt_next, rt_file, rt_pos, rt_offset, rt_iter, volumes>>
    /\ UNCHANGED <<rt_spanning, rt_reported, rt_faults>>
    /\ UNCHANGED nonrec

\* a recover_proc that hands recover_data the list without its first zone
Mut_VolumeExchange ==
    \E cap \in Capacities :
        /\ rt_pc = "recover_proc"
        /\ Len(volumes) < MaxVolumes
        /\ volumes' = Append(volumes, Volume(cap))
        /\ sink' = ConcurrentWriteBuffer_new(BufLimit)
        /\ rt_iter' = 1
        /\ rt_lost' = Tail(rt_lost)
        /\ rt_pc' = "recover_data"
        /\ UNCHANGED <<rt_format, rt_next, rt_file, rt_pos, rt_offset, rt_torn>>
        /\ UNCHANGED <<rt_spanning, rt_reported, rt_faults>>
        /\ UNCHANGED nonrec

\* recover_proc: volume_exchange_cli answered with y or n, open_sink on the
\* next volume, recover_data begins. The sink of the full volume is dropped:
\* what its worker still holds is refused by the full medium.
VolumeExchange ==
    \E cap \in Capacities :
        /\ rt_pc = "recover_proc"
        /\ Len(volumes) < MaxVolumes
        /\ volumes' = Append(volumes, Volume(cap))
        /\ sink' = ConcurrentWriteBuffer_new(BufLimit)
        /\ rt_iter' = 1
        /\ rt_pc' = "recover_data"
        /\ UNCHANGED <<rt_format, rt_next, rt_file, rt_pos, rt_offset, rt_lost, rt_torn>>
        /\ UNCHANGED <<rt_spanning, rt_reported, rt_faults>>
        /\ UNCHANGED nonrec

\* recover_proc: volume_exchange_cli answered with q
VolumeExchangeCancel ==
    /\ rt_pc = "recover_proc"
    /\ rt_pc' = "cancelled"
    /\ UNCHANGED <<rt_format, rt_next, rt_file, rt_pos, rt_offset, rt_lost, rt_iter, rt_torn,
                   sink, volumes>>
    /\ UNCHANGED <<rt_spanning, rt_reported, rt_faults>>
    /\ UNCHANGED nonrec

\* recover_data: iter.next() yields a zone with an identity; its offset is
\* computed and a data zone begins under a new RecoveryEntry
RecoverDataZone ==
    /\ rt_pc = "recover_data"
    /\ rt_iter <= Len(rt_lost)
    /\ IsSome(rt_lost[rt_iter].ident)
    /\ rt_iter' = rt_iter + 1
    /\ rt_file' = Unwrap(rt_lost[rt_iter].ident).path
    /\ rt_offset' = recovery_seek_offset(rt_format, rt_lost[rt_iter])
    /\ rt_pos' = 0
    /\ sink' = ConcurrentWriteBuffer_begin_data_zone(
                   sink, RecoveryEntry_new(Unwrap(rt_lost[rt_iter].ident).path, HeaderLen))
    /\ rt_pc' = "recover"
    /\ UNCHANGED <<rt_format, rt_next, rt_lost, rt_torn, volumes>>
    /\ UNCHANGED <<rt_spanning, rt_reported, rt_faults>>
    /\ UNCHANGED nonrec

\* recover_data: every zone is done, recover_data returns Ok(None), recover_proc
\* returns the sink and main calls serialize_proc again
RecoverDataEnd ==
    /\ rt_pc = "recover_data"
    /\ rt_iter > Len(rt_lost)
    /\ rt_pc' = "serialize_proc"
    /\ UNCHANGED <<rt_format, rt_next, rt_file, rt_pos, rt_offset, rt_lost, rt_iter, rt_torn,
                   sink, volumes>>
    /\ UNCHANGED <<rt_spanning, rt_reported, rt_faults>>
    /\ UNCHANGED nonrec

\* a close_tarball that writes the marker again after its flush request
Mut_CloseTarball ==
    /\ rt_pc = "close_tarball"
    /\ ~ConcurrentWriteBuffer_must_drain(sink, EofLen)
    /\ sink' = ConcurrentWriteBuffer_write(
                   ConcurrentWriteBuffer_flush(ConcurrentWriteBuffer_write(sink, EndOfArchive)),
                   EndOfArchive)
    /\ rt_pc' = "flush"
    /\ UNCHANGED <<rt_format, rt_next, rt_file, rt_pos, rt_offset, rt_lost, rt_iter, rt_torn,
                   volumes>>
    /\ UNCHANGED <<rt_spanning, rt_reported, rt_faults>>
    /\ UNCHANGED nonrec

\* close_tarball: write_all of the end-of-archive marker, flush up to its wait
CloseTarball ==
    /\ rt_pc = "close_tarball"
    /\ ~ConcurrentWriteBuffer_must_drain(sink, EofLen)
    /\ sink' = ConcurrentWriteBuffer_flush(ConcurrentWriteBuffer_write(sink, EndOfArchive))
    /\ rt_pc' = "flush"
    /\ UNCHANGED <<rt_format, rt_next, rt_file, rt_pos, rt_offset, rt_lost, rt_iter, rt_torn,
                   volumes>>
    /\ UNCHANGED <<rt_spanning, rt_reported, rt_faults>>
    /\ UNCHANGED nonrec

\* drain_buf_until_flush receives a response: DidWriteAll(Ok) is booked,
\* DidFlush(Ok) ends close_tarball and main, an error makes main return it
DrainBufUntilFlush ==
    /\ rt_pc = "flush"
    /\ sink.resp_recv # <<>>
    /\ sink' = IF Head(sink.resp_recv).op = "DidWriteAll" /\ Head(sink.resp_recv).ret = "ok"
               THEN [ConcurrentWriteBuffer_mark_data_committed(sink, Head(sink.resp_recv).size)
                        EXCEPT !.resp_recv = Tail(@)]
               ELSE [sink EXCEPT !.resp_recv = Tail(@)]
    /\ rt_pc' = IF Head(sink.resp_recv).ret # "ok" THEN "failed"
                ELSE IF Head(sink.resp_recv).op = "DidFlush" THEN "done"
                ELSE "flush"
    /\ UNCHANGED <<rt_format, rt_next, rt_file, rt_pos, rt_offset, rt_lost, rt_iter, rt_torn,
                   volumes>>
    /\ UNCHANGED <<rt_spanning, rt_reported, rt_faults>>
    /\ UNCHANGED nonrec

\* drain_buf_until_space receives an error inside close_tarball: main returns it
CloseTarballError ==
    /\ rt_pc = "close_tarball"
    /\ ConcurrentWriteBuffer_must_drain(sink, EofLen)
    /\ sink.resp_recv # <<>>
    /\ Head(sink.resp_recv).ret # "ok"
    /\ sink' = [sink EXCEPT !.resp_recv = Tail(@)]
    /\ rt_pc' = "failed"
    /\ UNCHANGED <<rt_format, rt_next, rt_file, rt_pos, rt_offset, rt_lost, rt_iter, rt_torn,
                   volumes>>
    /\ UNCHANGED <<rt_spanning, rt_reported, rt_faults>>
    /\ UNCHANGED nonrec

\* recover_data: iter.next() yields a zone without an identity, which is
\* passed over
RecoverDataSkip ==
    /\ rt_pc = "recover_data"
    /\ rt_iter <= Len(rt_lost)
    /\ ~IsSome(rt_lost[rt_iter].ident)
    /\ rt_iter' = rt_iter + 1
    /\ UNCHANGED <<rt_format, rt_pc, rt_next, rt_file, rt_pos, rt_offset, rt_lost, rt_torn,
                   sink, volumes>>
    /\ UNCHANGED <<rt_spanning, rt_reported, rt_faults>>
    /\ UNCHANGED nonrec

\* the zones a sink that has run out of space may report as uncommitted: a
\* zone without an identity, or the zone of a file, part of it committed
LostZone(ident, committed) ==
    [ident |-> ident, length |-> committed + 1, committed_length |-> committed,
     uncommitted_length |-> 1]

LostZones ==
    {LostZone(None, 0)}
        \cup {LostZone(Some(RecoveryEntry_new(f, HeaderLen)), HeaderLen + f) : f \in Files}

LostLists == UNION {[1 .. n -> LostZones] : n \in 1 .. MaxLost}

\* main calls recover_proc with a sink that has run out of space after the last
\* entry was handed to it: lost_zones = tarball.uncommitted_writes()
RecoverProc ==
    \E format \in {"USTAR", "POSIX"}, lost \in LostLists :
        /\ rt_pc = "main"
        /\ rt_format' = format
        /\ rt_spanning' = TRUE
        /\ volumes' = <<Volume(0)>>
        /\ sink' = ConcurrentWriteBuffer_new(BufLimit)
        /\ rt_next' = NumFiles
        /\ rt_lost' = lost
        /\ rt_torn' = LostFiles(lost)
        /\ rt_pc' = "recover_proc"
        /\ UNCHANGED <<rt_file, rt_pos, rt_offset, rt_iter, rt_reported, rt_faults>>
        /\ UNCHANGED nonrec

RecoverNext ==
    \/ RecoverProc
    \/ VolumeExchange
    \/ VolumeExchangeCancel
    \/ RecoverDataZone
    \/ RecoverDataSkip
    \/ RecoverDataEnd
    \/ RecoverWrite
    \/ RecoverWriteZero
    \/ DrainBufUntilSpace
    \/ WorkerWrite
    \/ WorkerOther

RecNext ==
    \/ Main
    \/ SerializeProcEntry
    \/ SerializeProcEnd
    \/ SerializeWrite
    \/ DrainBufUntilSpace
    \/ SerializeWriteZero
    \/ SerializeOutOfSpace
    \/ SerializeError
    \/ VolumeExchange
    \/ VolumeExchangeCancel
    \/ RecoverDataZone
    \/ RecoverDataEnd
    \/ RecoverWrite
    \/ RecoverWriteZero
    \/ CloseTarball
    \/ CloseTarballError
    \/ DrainBufUntilFlush
    \/ WorkerWrite
    \/ WorkerWriteFault
    \/ WorkerOther

----------------------------------------------------------------------------
(* SpecCWB: one ConcurrentWriteBuffer (concurrentbuf.rs 35-266) between a   *)
(* producer that calls write, flush and the zone methods, its worker        *)
(* thread, and an inner sink that may fail a write or accept part of it.    *)

\* the trait's default method: ConcurrentWriteBuffer does not override it
ConcurrentWriteBuffer_resume_data_zone(b, ident, committed) == b

\* a buffer handed to write: its bytes are told from others by id
Buffer(id, len) == [id |-> id, len |-> len]

\* one call on the inner sink: write offers len bytes of buffer id from offset
\* on, of which the sink takes `taken`
SinkCall(op, id, offset, len, taken, ret) ==
    [op |-> op, id |-> id, offset |-> offset, len |-> len, taken |-> taken, ret |-> ret]

\* io::Write::write_all on the inner sink: with split > 0 the sink takes only
\* split bytes of the first call and is offered the rest in a second; ret is
\* the result of the last call
Sink_write_all(buf, split, ret) ==
    IF split = 0
    THEN <<SinkCall("write", buf.id, 0, buf.len, IF ret = "ok" THEN buf.len ELSE 0, ret)>>
    ELSE <<SinkCall("write", buf.id, 0, buf.len, split, "ok"),
           SinkCall("write", buf.id, split, buf.len - split,
                    IF ret = "ok" THEN buf.len - split ELSE 0, ret)>>

\* the inner sink's call for a command that is not a write
Sink_other(cmd) ==
    SinkCall(CASE cmd.op = "DoFlush" -> "flush"
               [] cmd.op = "DoBeginDataZone" -> "begin_data_zone"
               [] cmd.op = "DoEndDataZone" -> "end_data_zone",
             0, 0, 0, 0, "ok")

NoCwbCall ==
    [op |-> "none", id |-> 0, len |-> 0, failed_before |-> FALSE, ended_before |-> FALSE,
     ret |-> "ok"]

CwbCall(op, id, len, ret) ==
    [op |-> op, id |-> id, len |-> len,
     failed_before |-> \E i \in 1 .. Len(cwb.resp_recv) : cwb.resp_recv[i].ret # "ok",
     ended_before |-> cwb_worker = "dead",
     ret |-> ret]

NoCwbCount == [calls |-> 0, faults |-> 0]

\* a command as cwb_sent lists it
Sent(op, id, len) == [op |-> op, id |-> id, len |-> len]

\* cmd_send.send(..).unwrap() finds the receiver gone when the worker has ended
SendPanics == cwb_worker = "dead"

\* write: drain_buf_until_space returns at once (or the worker is gone and
\* send panics); otherwise the producer waits inside it
CWBWrite ==
    \E len \in 1 .. MaxCwbLen :
        /\ cwb_pc = "idle"
        /\ cwb_count.calls < MaxCwbCalls
        /\ cwb_count' = [cwb_count EXCEPT !.calls = @ + 1]
        /\ IF ConcurrentWriteBuffer_must_drain(cwb, len)
           THEN /\ cwb_pc' = "write"
                /\ cwb_call' = CwbCall("write", cwb_count.calls + 1, len, "pending")
                /\ UNCHANGED <<cwb, cwb_sent>>
           ELSE IF SendPanics
                THEN /\ cwb_pc' = "panicked"
                     /\ cwb_call' = CwbCall("write", cwb_count.calls + 1, len, "panic")
                     /\ cwb' = ConcurrentWriteBuffer_mark_data_buffered(cwb, len)
                     /\ UNCHANGED cwb_sent
                ELSE /\ cwb_pc' = "idle"
                     /\ cwb_call' = CwbCall("write", cwb_count.calls + 1, len, "ok")
                     /\ cwb' = ConcurrentWriteBuffer_write(
                                   cwb, Buffer(cwb_count.calls + 1, len))
                     /\ cwb_sent' = Append(cwb_sent, Sent("DoWriteAll", cwb_count.calls + 1, len))
        /\ UNCHANGED <<cwb_inner, cwb_worker>>
        /\ UNCHANGED noncwb

\* drain_buf_until_space receives DidWriteAll(Ok(size)) or a response it passes
\* over; when the loop's condition no longer holds, write goes on to send
CWBWriteDrain ==
    /\ cwb_pc = "write"
    /\ cwb.resp_recv # <<>>
    /\ Head(cwb.resp_recv).ret = "ok"
    /\ \E b \in {IF Head(cwb.resp_recv).op = "DidWriteAll"
                 THEN [ConcurrentWriteBuffer_mark_data_committed(
                           cwb, Head(cwb.resp_recv).size) EXCEPT !.resp_recv = Tail(@)]
                 ELSE [cwb EXCEPT !.resp_recv = Tail(@)]} :
           IF ConcurrentWriteBuffer_must_drain(b, cwb_call.len)
           THEN /\ cwb' = b
                /\ UNCHANGED <<cwb_pc, cwb_call, cwb_sent>>
           ELSE IF SendPanics
                THEN /\ cwb' = ConcurrentWriteBuffer_mark_data_buffered(b, cwb_call.len)
                     /\ cwb_pc' = "panicked"
                     /\ cwb_call' = [cwb_call EXCEPT !.ret = "panic"]
                     /\ UNCHANGED cwb_sent
                ELSE /\ cwb' = ConcurrentWriteBuffer_write(
                                   b, Buffer(cwb_call.id, cwb_call.len))
                     /\ cwb_pc' = "idle"
                     /\ cwb_call' = [cwb_call EXCEPT !.ret = "ok"]
                     /\ cwb_sent' = Append(cwb_sent, Sent("DoWriteAll", cwb_call.id, cwb_call.len))
    /\ UNCHANGED <<cwb_inner, cwb_worker, cwb_count>>
    /\ UNCHANGED noncwb

\* flush: send DoFlush, then wait in drain_buf_until_flush
CWBFlush ==
    /\ cwb_pc = "idle"
    /\ cwb_count.calls < MaxCwbCalls
    /\ cwb_count' = [cwb_count EXCEPT !.calls = @ + 1]
    /\ IF SendPanics
       THEN /\ cwb_pc' = "panicked"
            /\ cwb_call' = CwbCall("flush", 0, 0, "panic")
            /\ UNCHANGED <<cwb, cwb_sent>>
       ELSE /\ cwb_pc' = "flush"
            /\ cwb_call' = CwbCall("flush", 0, 0, "pending")
            /\ cwb' = ConcurrentWriteBuffer_flush(cwb)
            /\ cwb_sent' = Append(cwb_sent, Sent("DoFlush", 0, 0))
    /\ UNCHANGED <<cwb_inner, cwb_worker>>
    /\ UNCHANGED noncwb

\* drain_buf_until_flush receives a response that is no error: DidFlush(Ok)
\* ends the flush, DidWriteAll(Ok(size)) is booked, others are passed over
CWBFlushDrain ==
    /\ cwb_pc = "flush"
    /\ cwb.resp_recv # <<>>
    /\ Head(cwb.resp_recv).ret = "ok"
    /\ cwb' = IF Head(cwb.resp_recv).op = "DidWriteAll"
              THEN [ConcurrentWriteBuffer_mark_data_committed(
                        cwb, Head(cwb.resp_recv).size) EXCEPT !.resp_recv = Tail(@)]
              ELSE [cwb EXCEPT !.resp_recv = Tail(@)]
    /\ cwb_pc' = IF Head(cwb.resp_recv).op = "DidFlush" THEN "idle" ELSE "flush"
    /\ cwb_call' = IF Head(cwb.resp_recv).op = "DidFlush"
                   THEN [cwb_call EXCEPT !.ret = "ok"]
                   ELSE cwb_call
    /\ UNCHANGED <<cwb_inner, cwb_sent, cwb_worker, cwb_count>>
    /\ UNCHANGED noncwb

\* either drain loop receives DidWriteAll(Err(e)): the call returns Err(e)
CWBDrainError ==
    /\ cwb_pc \in {"write", "flush"}
    /\ cwb.resp_recv # <<>>
    /\ Head(cwb.resp_recv).ret # "ok"
    /\ cwb' = [cwb EXCEPT !.resp_recv = Tail(@)]
    /\ cwb_pc' = "idle"
    /\ cwb_call' = [cwb_call EXCEPT !.ret = Head(cwb.resp_recv).ret]
    /\ UNCHANGED <<cwb_inner, cwb_sent, cwb_worker, cwb_count>>
    /\ UNCHANGED noncwb

\* either drain loop finds the channel empty and its sender gone: recv returns
\* Err and the call returns "Buffer thread unexpectedly terminated"
CWBDrainDisconnected ==
    /\ cwb_pc \in {"write", "flush"}
    /\ cwb.resp_recv = <<>>
    /\ cwb_worker = "dead"
    /\ cwb_pc' = "idle"
    /\ cwb_call' = [cwb_call EXCEPT !.ret = "terminated"]
    /\ UNCHANGED <<cwb, cwb_inner, cwb_sent, cwb_worker, cwb_count>>
    /\ UNCHANGED noncwb

CWBBeginDataZone ==
    \E ident \in 1 .. MaxCwbZones :
        /\ cwb_pc = "idle"
        /\ cwb_count.calls < MaxCwbCalls
        /\ cwb_count' = [cwb_count EXCEPT !.calls = @ + 1]
        /\ cwb_call' = CwbCall("begin_data_zone", ident, 0,
                               IF SendPanics THEN "panic" ELSE "ok")
        /\ IF SendPanics
           THEN /\ cwb_pc' = "panicked"
                /\ cwb' = [cwb EXCEPT !.uncommitted_data_zones = @ \o cwb.current_data_zone,
                                      !.current_data_zone = None]
                /\ UNCHANGED cwb_sent
           ELSE /\ cwb_pc' = "idle"
                /\ cwb' = ConcurrentWriteBuffer_begin_data_zone(cwb, ident)
                /\ cwb_sent' = cwb_sent \o <<Sent("DoEndDataZone", 0, 0),
                                             Sent("DoBeginDataZone", 0, 0)>>
        /\ UNCHANGED <<cwb_inner, cwb_worker>>
        /\ UNCHANGED noncwb

CWBEndDataZone ==
    /\ cwb_pc = "idle"
    /\ IsSome(cwb.current_data_zone)
    /\ ~SendPanics
    /\ cwb' = ConcurrentWriteBuffer_end_data_zone(cwb)
    /\ cwb_sent' = Append(cwb_sent, Sent("DoEndDataZone", 0, 0))
    /\ cwb_call' = CwbCall("end_data_zone", 0, 0, "ok")
    /\ UNCHANGED <<cwb_pc, cwb_inner, cwb_worker, cwb_count>>
    /\ UNCHANGED noncwb

CWBResumeDataZone ==
    \E ident \in 1 .. MaxCwbZones, committed \in 1 .. MaxCwbLen :
        /\ cwb_pc = "idle"
        /\ cwb_call.op # "resume_data_zone"
        /\ cwb_count.calls < MaxCwbCalls
        /\ cwb_count' = [cwb_count EXCEPT !.calls = @ + 1]
        /\ cwb' = ConcurrentWriteBuffer_resume_data_zone(cwb, ident, committed)
        /\ cwb_call' = CwbCall("resume_data_zone", ident, committed, "ok")
        /\ UNCHANGED <<cwb_pc, cwb_inner, cwb_sent, cwb_worker>>
        /\ UNCHANGED noncwb

\* command_task_write takes a DoWriteAll: inner.write_all(&data)
CWBWorkerWrite ==
    \E split \in 0 .. MaxCwbLen - 1, ret \in {"ok", "Other"} :
        /\ cwb_worker = "alive"
        /\ cwb.cmd_send # <<>>
        /\ Head(cwb.cmd_send).op = "DoWriteAll"
        /\ split < Unwrap(Head(cwb.cmd_send).data).len
        /\ (split > 0 \/ ret # "ok") => cwb_count.faults < MaxCwbFaults
        /\ cwb_count' = [cwb_count EXCEPT
                            !.faults = @ + (IF split > 0 \/ ret # "ok" THEN 1 ELSE 0)]
        /\ cwb_inner' = cwb_inner \o Sink_write_all(Unwrap(Head(cwb.cmd_send).data), split, ret)
        /\ cwb' = [cwb EXCEPT !.cmd_send = Tail(@),
                              !.resp_recv = Append(@, command_task_write(
                                                         Head(cwb.cmd_send), ret))]
        /\ UNCHANGED <<cwb_pc, cwb_call, cwb_sent, cwb_worker>>
        /\ UNCHANGED noncwb

\* command_task_write takes a DoFlush, DoBeginDataZone or DoEndDataZone
CWBWorkerOther ==
    /\ cwb_worker = "alive"
    /\ cwb.cmd_send # <<>>
    /\ Head(cwb.cmd_send).op # "DoWriteAll"
    /\ cwb_inner' = Append(cwb_inner, Sink_other(Head(cwb.cmd_send)))
    /\ cwb' = [cwb EXCEPT !.cmd_send = Tail(@),
                          !.resp_recv = Append(@, command_task_write(
                                                     Head(cwb.cmd_send), "ok"))]
    /\ UNCHANGED <<cwb_pc, cwb_call, cwb_sent, cwb_worker, cwb_count>>
    /\ UNCHANGED noncwb

\* the worker thread ends while the buffer is in use (a panic inside the
\* locked section): its ends of both channels are dropped, the commands it
\* had not taken are lost
CWBWorkerEnds ==
    /\ cwb_worker = "alive"
    /\ cwb_pc # "panicked"
    /\ cwb_worker' = "dead"
    /\ cwb' = [cwb EXCEPT !.cmd_send = <<>>]
    /\ UNCHANGED <<cwb_pc, cwb_call, cwb_inner, cwb_sent, cwb_count>>
    /\ UNCHANGED noncwb

CWBNext ==
    \/ CWBWrite
    \/ CWBWriteDrain
    \/ CWBFlush
    \/ CWBFlushDrain
    \/ CWBDrainError
    \/ CWBDrainDisconnected
    \/ CWBBeginDataZone
    \/ CWBEndDataZone
    \/ CWBResumeDataZone
    \/ CWBWorkerWrite
    \/ CWBWorkerOther
    \/ CWBWorkerEnds

----------------------------------------------------------------------------
(* SpecCli: volume_exchange_cli (rapidtar.rs 114-152). A response is the    *)
(* string read_line has filled in, a sequence of one-byte characters; "LF"  *)
(* is the line feed read_line keeps.                                        *)

CliChars == {"?", "q", "y", "n", " ", "a", "LF"}

Responses == UNION {[1 .. n -> CliChars] : n \in 0 .. MaxCliLine}

DefaultOutfile == <<"o">>

\* &response[a..b] with byte indices: Rust panics when b is beyond the end
Slice(response, a, b) ==
    IF b > Len(response) THEN [panic |-> TRUE, str |-> <<>>]
    ELSE [panic |-> FALSE, str |-> SubSeq(response, a + 1, b)]

\* one turn of the prompt's loop on a response that was read: which arm of the
\* match is taken, and the output path afterwards
volume_exchange_cli(response, outfile) ==
    IF Slice(response, 0, 1).panic
    THEN [arm |-> "panic", outfile |-> outfile]
    ELSE CASE Slice(response, 0, 1).str = <<"?">> -> [arm |-> "help", outfile |-> outfile]
           [] Slice(response, 0, 1).str = <<"q">> -> [arm |-> "cancel", outfile |-> outfile]
           [] Slice(response, 0, 1).str = <<"y">> -> [arm |-> "reopen", outfile |-> outfile]
           [] Slice(response, 0, 1).str = <<"n", " ">> ->
                  [arm |-> "newfile", outfile |-> SubSeq(response, 3, Len(response))]
           [] OTHER -> [arm |-> "invalid", outfile |-> outfile]

CliLine(response, outfile, arm) == [response |-> response, outfile |-> outfile, arm |-> arm]

NoCliLine == CliLine(<<>>, DefaultOutfile, "none")

\* read_line returns Ok and the match runs
CliReadLine ==
    \E response \in Responses :
        /\ cli_pc = "prompt"
        /\ cli_lines < MaxCliLines
        /\ cli_lines' = cli_lines + 1
        /\ \E r \in {volume_exchange_cli(response, cli_outfile)} :
               /\ cli_last' = CliLine(response, cli_outfile, r.arm)
               /\ cli_outfile' = r.outfile
               /\ cli_cancelled' = (r.arm = "cancel")
               /\ cli_pc' = CASE r.arm = "panic" -> "panicked"
                              [] r.arm \in {"cancel", "reopen", "newfile"} -> "returned"
                              [] OTHER -> "prompt"
        /\ UNCHANGED noncli

\* read_line returns Err: InvalidData asks again, anything else is returned
CliReadError ==
    \E kind \in {"InvalidData", "Other"} :
        /\ cli_pc = "prompt"
        /\ cli_lines < MaxCliLines
        /\ cli_lines' = cli_lines + 1
        /\ cli_last' = CliLine(<<>>, cli_outfile, kind)
        /\ cli_pc' = IF kind = "InvalidData" THEN "prompt" ELSE "error"
        /\ UNCHANGED <<cli_cancelled, cli_outfile>>
        /\ UNCHANGED noncli

\* recover_proc calls volume_exchange_cli again for the next volume
CliCall ==
    /\ cli_pc = "returned"
    /\ ~cli_cancelled
    /\ cli_lines < MaxCliLines
    /\ cli_pc' = "prompt"
    /\ cli_last' = CliLine(<<>>, cli_outfile, "none")
    /\ UNCHANGED <<cli_cancelled, cli_outfile, cli_lines>>
    /\ UNCHANGED noncli

CliNext ==
    \/ CliReadLine
    \/ CliReadError
    \/ CliCall

----------------------------------------------------------------------------
(* SpecTrav: read_traverse (rapidtar.rs 221-242), traverse (traverse.rs     *)
(* 79-126) and the receiving loop of serialize_proc (rapidtar.rs 194). The  *)
(* paths found are numbered 1..MaxPaths in the order their results are      *)
(* produced.                                                                *)

\* a mutant channel without a bound
Mut_SyncSender_would_block(chan, depth) == FALSE

\* SyncSender::send on a sync_channel(depth) blocks while depth results are queued
SyncSender_would_block(chan, depth) == Len(chan) >= depth

\* pool threads that have produced a result and are inside send
Sending == {w \in DOMAIN tr_workers : IsSome(tr_workers[w])}

\* read_traverse: the channel is made and the traversal spawned on the pool
ReadTraverse ==
    \E depth \in 0 .. MaxQueueDepth, threads \in 1 .. MaxTravWorkers :
        /\ tr_pc = "main"
        /\ tr_pc' = "traversing"
        /\ tr_depth' = depth
        /\ tr_workers' = [w \in 1 .. threads |-> None]
        /\ UNCHANGED <<tr_chan, tr_found, tr_recvd>>
        /\ UNCHANGED nontrav

\* a pool thread runs archive_header_fn for the next path: headergen has
\* produced the result and c.send is called
TraverseHeadergen ==
    \E w \in DOMAIN tr_workers :
        /\ tr_pc = "traversing"
        /\ ~IsSome(tr_workers[w])
        /\ tr_found < MaxPaths
        /\ tr_found' = tr_found + 1
        /\ tr_workers' = [tr_workers EXCEPT ![w] = Some(tr_found + 1)]
        /\ UNCHANGED <<tr_pc, tr_depth, tr_chan, tr_recvd>>
        /\ UNCHANGED nontrav

\* c.send returns: the result is queued
TraverseSend ==
    \E w \in Sending :
        /\ ~SyncSender_would_block(tr_chan, tr_depth)
        /\ tr_chan' = Append(tr_chan, Unwrap(tr_workers[w]))
        /\ tr_workers' = [tr_workers EXCEPT ![w] = None]
        /\ UNCHANGED <<tr_pc, tr_depth, tr_found, tr_recvd>>
        /\ UNCHANGED nontrav

\* serialize_proc: receiver.recv() takes the oldest queued result
SerializeProcRecv ==
    /\ tr_chan # <<>>
    /\ tr_recvd' = Append(tr_recvd, Head(tr_chan))
    /\ tr_chan' = Tail(tr_chan)
    /\ UNCHANGED <<tr_pc, tr_depth, tr_workers, tr_found>>
    /\ UNCHANGED nontrav

\* the same on a channel of depth 0: the result passes from a blocked sender
\* to the receiver
SerializeProcRendezvous ==
    \E w \in Sending :
        /\ tr_depth = 0
        /\ tr_recvd' = Append(tr_recvd, Unwrap(tr_workers[w]))
        /\ tr_workers' = [tr_workers EXCEPT ![w] = None]
        /\ UNCHANGED <<tr_pc, tr_depth, tr_chan, tr_found>>
        /\ UNCHANGED nontrav

TravNext ==
    \/ ReadTraverse
    \/ TraverseHeadergen
    \/ TraverseSend
    \/ SerializeProcRecv
    \/ SerializeProcRendezvous

----------------------------------------------------------------------------
(* SpecTape: UnixTapeDevice (tape/unix.rs 62-189) and WindowsTapeDevice     *)
(* (tape/windows.rs 116-298) read by a caller that mixes read and           *)
(* read_block. The bytes on the tape are 1, 2, 3, ... in tape order.        *)

\* the tape whose records have these lengths
RECURSIVE TapeOf(_, _)
TapeOf(lens, first) ==
    IF lens = <<>> THEN <<>>
    ELSE <<[i \in 1 .. Head(lens) |-> first + i - 1]>>
             \o TapeOf(Tail(lens), first + Head(lens))

RecordLengths == UNION {[1 .. n -> 1 .. MaxRecLen] : n \in 1 .. MaxRecords}

\* from_file_descriptor / open_tape
TapeDevice_open(platform) ==
    [platform |-> platform, pos |-> 1, block_spill_buffer |-> <<>>, capacity |-> SpillCap,
     block_spill_read_pos |-> 0, eof_condition |-> FALSE, last_command |-> "NoneOfTheAbove"]

NoDevice == TapeDevice_open("none")

\* what the driver answers to a read of `capacity` bytes at this position
Device_read(tape, dev) ==
    IF dev.pos > Len(tape) THEN "eof"
    ELSE IF Len(tape[dev.pos]) <= dev.capacity THEN "ok"
    ELSE "toobig"

\* the capacity after Vec::reserve(additional) on a Vec of len and cap
Reserve(len, cap, additional) == IF cap - len >= additional THEN cap ELSE len + additional

\* UnixTapeDevice::read_next_block: ENOMEM grows the buffer, spaces back one
\* record and goes round the loop
RECURSIVE Unix_read_next_block(_, _)
Unix_read_next_block(tape, dev) ==
    CASE Device_read(tape, dev) = "eof" -> [dev EXCEPT !.block_spill_buffer = <<>>]
      [] Device_read(tape, dev) = "ok" ->
             [dev EXCEPT !.block_spill_buffer = tape[dev.pos], !.pos = @ + 1]
      [] Device_read(tape, dev) = "toobig" ->
             Unix_read_next_block(
                 tape, [dev EXCEPT !.capacity = Reserve(Len(dev.block_spill_buffer),
                                                        dev.capacity, dev.capacity * 2)])

\* WindowsTapeDevice::read_next_block with handle_read_error: one ReadFile,
\* then `break`. On ERROR_MORE_DATA the buffer is grown and the tape spaced
\* back, and the spill buffer is given the length ReadFile reported: the part
\* that fitted (partial) or nothing.
Windows_read_next_block(tape, dev, partial) ==
    IF dev.eof_condition THEN [dev EXCEPT !.last_command = "Read"]
    ELSE CASE Device_read(tape, dev) = "eof" ->
                  [dev EXCEPT !.last_command = "Read", !.eof_condition = TRUE,
                              !.block_spill_buffer = <<>>]
           [] Device_read(tape, dev) = "ok" ->
                  [dev EXCEPT !.last_command = "Read",
                              !.block_spill_buffer = tape[dev.pos], !.pos = @ + 1]
           [] Device_read(tape, dev) = "toobig" ->
                  [dev EXCEPT !.last_command = "Read",
                              !.capacity = Reserve(Len(dev.block_spill_buffer),
                                                   dev.capacity, dev.capacity * 2),
                              !.block_spill_buffer =
                                  IF partial THEN SubSeq(tape[dev.pos], 1, dev.capacity)
                                  ELSE <<>>]

read_next_block(tape, dev, partial) ==
    IF dev.platform = "unix" THEN Unix_read_next_block(tape, dev)
    ELSE Windows_read_next_block(tape, dev, partial)

ReadResult(dev, out, status) == [dev |-> dev, out |-> out, status |-> status]

\* io::Read::read into a buffer of n bytes, `out` being what it has copied so
\* far. status "eof_loop": the Unix loop reads 0 bytes at the end of the data
\* again and again; "panic": a slice or subtraction out of range.
RECURSIVE TapeDevice_read(_, _, _, _, _)
TapeDevice_read(tape, dev, n, out, partial) ==
    LET remain == n - Len(out)
        Fresh(d) ==
            IF Len(d.block_spill_buffer) <= remain
            THEN IF d.block_spill_buffer = <<>> /\ d.platform = "unix"
                 THEN ReadResult(d, out, "eof_loop")
                 ELSE TapeDevice_read(tape, d, n, out \o d.block_spill_buffer, partial)
            ELSE TapeDevice_read(tape, [d EXCEPT !.block_spill_read_pos = remain], n,
                                 out \o SubSeq(d.block_spill_buffer, 1, remain), partial)
    IN  IF Len(out) >= n THEN ReadResult(dev, out, "ok")
        ELSE IF dev.block_spill_read_pos = 0
        THEN IF dev.platform = "windows" /\ dev.eof_condition
             THEN ReadResult(dev, out, "ok")
             ELSE Fresh(read_next_block(tape, dev, partial))
        ELSE IF dev.block_spill_read_pos > Len(dev.block_spill_buffer)
        THEN ReadResult(dev, out, "panic")
        ELSE IF Len(dev.block_spill_buffer) - dev.block_spill_read_pos <= remain
        THEN TapeDevice_read(
                 tape, [dev EXCEPT !.block_spill_read_pos = 0], n,
                 out \o SubSeq(dev.block_spill_buffer, dev.block_spill_read_pos + 1,
                               Len(dev.block_spill_buffer)), partial)
        ELSE TapeDevice_read(
                 tape, [dev EXCEPT !.block_spill_read_pos = @ + remain], n,
                 out \o SubSeq(dev.block_spill_buffer, dev.block_spill_read_pos + 1,
                               dev.block_spill_read_pos + remain), partial)

\* TapeDevice::read_block: the caller's Vec is swapped with the spill buffer
TapeDevice_read_block(tape, dev, partial) ==
    LET Swap(d) ==
            ReadResult([d EXCEPT !.block_spill_buffer = <<>>,
                                 !.block_spill_read_pos =
                                     IF d.platform = "unix" THEN 0 ELSE @],
                       d.block_spill_buffer, "ok")
    IN  IF dev.block_spill_read_pos = 0
        THEN IF dev.platform = "windows" /\ dev.eof_condition
             THEN ReadResult(dev, <<>>, "ok")
             ELSE Swap(read_next_block(tape, dev, partial))
        ELSE Swap(dev)

TapeCall(op, n, dev, ret, status) ==
    [op |-> op, n |-> n, pos |-> dev.pos, read_pos |-> dev.block_spill_read_pos,
     ret |-> ret, status |-> status]

NoTapeCall == TapeCall("none", 0, NoDevice, <<>>, "ok")

TapeStatusPc(status) ==
    CASE status = "ok" -> "open"
      [] status = "panic" -> "panicked"
      [] status = "eof_loop" -> "eof_loop"

\* a tape is loaded and the device opened, on one of the two platforms
TapeOpen ==
    \E platform \in {"unix", "windows"}, lens \in RecordLengths :
        /\ tp_pc = "closed"
        /\ tp_pc' = "open"
        /\ tp_tape' = TapeOf(lens, 1)
        /\ tp_dev' = TapeDevice_open(platform)
        /\ UNCHANGED <<tp_out, tp_last, tp_calls>>
        /\ UNCHANGED nontape

TapeRead ==
    \E n \in 1 .. MaxReadLen, partial \in BOOLEAN :
        /\ tp_pc = "open"
        /\ tp_calls < MaxTapeCalls
        /\ tp_calls' = tp_calls + 1
        /\ \E r \in {TapeDevice_read(tp_tape, tp_dev, n, <<>>, partial)} :
               /\ tp_dev' = r.dev
               /\ tp_out' = tp_out \o r.out
               /\ tp_last' = TapeCall("read", n, tp_dev, r.out, r.status)
               /\ tp_pc' = TapeStatusPc(r.status)
        /\ UNCHANGED tp_tape
        /\ UNCHANGED nontape

TapeReadBlock ==
    \E partial \in BOOLEAN :
        /\ tp_pc = "open"
        /\ tp_calls < MaxTapeCalls
        /\ tp_calls' = tp_calls + 1
        /\ \E r \in {TapeDevice_read_block(tp_tape, tp_dev, partial)} :
               /\ tp_dev' = r.dev
               /\ tp_out' = tp_out \o r.out
               /\ tp_last' = TapeCall("read_block", 0, tp_dev, r.out, r.status)
               /\ tp_pc' = TapeStatusPc(r.status)
        /\ UNCHANGED tp_tape
        /\ UNCHANGED nontape

\* io::Write::write of one record: what lay behind the position is lost.
\* Only the Windows device notes the command.
TapeWrite ==
    /\ tp_pc = "open"
    /\ tp_calls < MaxTapeCalls
    /\ tp_calls' = tp_calls + 1
    /\ tp_tape' = Append(SubSeq(tp_tape, 1, tp_dev.pos - 1), <<0>>)
    /\ tp_dev' = [tp_dev EXCEPT !.pos = @ + 1,
                                !.last_command =
                                    IF tp_dev.platform = "windows" THEN "Write" ELSE @]
    /\ tp_last' = TapeCall("write", 1, tp_dev, <<>>, "ok")
    /\ UNCHANGED <<tp_pc, tp_out>>
    /\ UNCHANGED nontape

\* TapeDevice::write_filemark
TapeWriteFilemark ==
    /\ tp_pc = "open"
    /\ tp_calls < MaxTapeCalls
    /\ tp_calls' = tp_calls + 1
    /\ tp_tape' = SubSeq(tp_tape, 1, tp_dev.pos - 1)
    /\ tp_dev' = [tp_dev EXCEPT !.last_command =
                                    IF tp_dev.platform = "windows" THEN "WriteFilemark"
                                    ELSE @]
    /\ tp_last' = TapeCall("write_filemark", 1, tp_dev, <<>>, "ok")
    /\ UNCHANGED <<tp_pc, tp_out>>
    /\ UNCHANGED nontape

\* TapeDevice::seek_blocks(SeekFrom::Start(0)); the spill buffer is left alone
TapeSeekBlocks ==
    /\ tp_pc = "open"
    /\ tp_calls < MaxTapeCalls
    /\ tp_calls' = tp_calls + 1
    /\ tp_dev' = [tp_dev EXCEPT !.pos = 1,
                                !.last_command =
                                    IF tp_dev.platform = "windows" THEN "NoneOfTheAbove"
                                    ELSE @,
                                !.eof_condition = FALSE]
    /\ tp_last' = TapeCall("seek_blocks", 0, tp_dev, <<>>, "ok")
    /\ UNCHANGED <<tp_pc, tp_tape, tp_out>>
    /\ UNCHANGED nontape

\* the tape operations Drop::drop issues before the handle is given up
TapeDevice_drop(dev) ==
    IF dev.platform = "unix" THEN <<>>
    ELSE CASE dev.last_command = "Write" -> <<"write_filemark", "write_filemark", "bsf">>
           [] dev.last_command = "WriteFilemark" -> <<"write_filemark", "bsf">>
           [] dev.last_command = "Read" -> IF ~dev.eof_condition THEN <<"fsf">> ELSE <<>>
           [] OTHER -> <<>>

\* the device is dropped
TapeDrop ==
    /\ tp_pc = "open"
    /\ tp_pc' = "dropped"
    /\ tp_last' = TapeCall("drop", 0, tp_dev, TapeDevice_drop(tp_dev), "ok")
    /\ UNCHANGED <<tp_tape, tp_dev, tp_out, tp_calls>>
    /\ UNCHANGED nontape

TapeDropNext ==
    \/ TapeOpen
    \/ TapeRead
    \/ TapeReadBlock
    \/ TapeWrite
    \/ TapeWriteFilemark
    \/ TapeSeekBlocks
    \/ TapeDrop

TapeNext ==
    \/ TapeOpen
    \/ TapeRead
    \/ TapeReadBlock

----------------------------------------------------------------------------
(* SpecCopy: stream (src/rapidtar/stream.rs 22-129) copying a reader of     *)
(* sc_source to a writer that takes all or part of what it is offered. The  *)
(* source's bytes are 1, 2, 3, ...                                          *)

\* a Vec<u8>: its contents and its capacity
Vec(buf, cap) == [buf |-> buf, cap |-> cap]

NoVec == Vec(<<>>, 0)

\* the read closure: read into the spare capacity until the buffer is full or
\* the reader is at its end
stream_read(read_buf, source, rpos) ==
    Vec(read_buf.buf \o SubSeq(source, rpos + 1,
                               rpos + Min(read_buf.cap - Len(read_buf.buf),
                                          Len(source) - rpos)),
        read_buf.cap)

\* "Peel off any written data": the whole buffer was taken and its length is
\* set to 0, or split_off leaves the tail in a Vec of its own
stream_peel(write_buf, w_count) ==
    IF w_count = Len(write_buf.buf) THEN Vec(<<>>, write_buf.cap)
    ELSE Vec(SubSeq(write_buf.buf, w_count + 1, Len(write_buf.buf)),
             Len(write_buf.buf) - w_count)

\* the swap of a full read buffer with an empty write buffer
stream_swaps(read_buf, write_buf) ==
    Len(read_buf.buf) = read_buf.cap /\ write_buf.buf = <<>>

\* write_buf.extend_from_slice(read_buf) when read_buf is not empty; read_buf
\* keeps its contents
stream_extend(write_buf, read_buf) ==
    Vec(write_buf.buf \o read_buf.buf,
        IF Len(write_buf.buf) + Len(read_buf.buf) <= write_buf.cap THEN write_buf.cap
        ELSE Max(2 * write_buf.cap, Len(write_buf.buf) + Len(read_buf.buf)))

\* stream is called on a source with buffer_len = Some(cap)
StreamStart ==
    \E n \in 0 .. MaxSource, cap \in 1 .. MaxBufLen :
        /\ sc_pc = "idle"
        /\ sc_pc' = "loop"
        /\ sc_source' = [i \in 1 .. n |-> i]
        /\ sc_read_buf' = Vec(<<>>, cap)
        /\ sc_write_buf' = Vec(<<>>, cap)
        /\ UNCHANGED <<sc_rpos, sc_written, sc_sink>>
        /\ UNCHANGED noncopy

\* one pass of the loop: the read and the write joined, the peel, the swap, the
\* extend and the test that ends the loop. The writer takes w_count bytes.
StreamLoop ==
    \E w_count \in 0 .. Len(sc_write_buf.buf) :
        /\ sc_pc = "loop"
        /\ Len(sc_sink) < MaxSinkBytes
        /\ w_count = 0 <=> sc_write_buf.buf = <<>>
        /\ sc_sink' = sc_sink \o SubSeq(sc_write_buf.buf, 1, w_count)
        /\ sc_written' = sc_written + w_count
        /\ \E rb \in {stream_read(sc_read_buf, sc_source, sc_rpos)},
              wb \in {stream_peel(sc_write_buf, w_count)} :
               /\ sc_rpos' = sc_rpos + Len(rb.buf) - Len(sc_read_buf.buf)
               /\ sc_read_buf' = IF stream_swaps(rb, wb) THEN wb ELSE rb
               /\ \E wb2 \in {IF stream_swaps(rb, wb) THEN rb ELSE wb} :
                      sc_write_buf' = IF sc_read_buf'.buf # <<>>
                                      THEN stream_extend(wb2, sc_read_buf')
                                      ELSE wb2
        /\ sc_pc' = IF sc_write_buf'.buf = <<>> THEN "done" ELSE "loop"
        /\ UNCHANGED sc_source
        /\ UNCHANGED noncopy

CopyNext ==
    \/ StreamStart
    \/ StreamLoop

----------------------------------------------------------------------------
(* SpecSer: serialize (src/rapidtar/tar/mod.rs 252-285) writing one entry   *)
(* to a writer that takes everything it is given.                           *)

HeaderGenResult(encoded_header, file_type, file_size, file_prefix) ==
    [encoded_header |-> encoded_header, file_type |-> file_type, file_size |-> file_size,
     file_prefix |-> file_prefix]

NoTraversal == HeaderGenResult(0, "Directory", 0, None)

\* a write_all of len bytes of one kind
Chunk(kind, len) == [kind |-> kind, len |-> len]

\* what io::copy moves after the seek past the prefix
serialize_copied(actual, prefix) ==
    IF IsSome(prefix)
    THEN IF actual >= Unwrap(prefix) THEN actual - Unwrap(prefix) ELSE 0
    ELSE actual

\* the padding block: tarball_size after it and the zero bytes written
serialize_padding(tarball_size) ==
    IF tarball_size % TarRecord # 0
    THEN [tarball_size |-> tarball_size + (tarball_size % TarRecord),
          zeros |-> TarRecord - (tarball_size % TarRecord)]
    ELSE [tarball_size |-> tarball_size, zeros |-> 0]

\* serialize is called with the result of a traversal; the file may have
\* changed on disk since
TarSerialize ==
    \E h \in 1 .. MaxHeaderRecords, file_type \in {"FileStream", "Directory"},
       file_size \in 0 .. MaxFileSize, actual \in 0 .. MaxFileSize,
       file_prefix \in {None} \cup {Some(n) : n \in 0 .. MaxFileSize} :
        /\ ts_pc = "idle"
        /\ IsSome(file_prefix) => (file_type = "FileStream" /\ Unwrap(file_prefix) <= file_size)
        /\ file_type = "Directory" => (file_size = 0 /\ actual = 0)
        /\ ts_traversal' = HeaderGenResult(h * TarRecord, file_type, file_size, file_prefix)
        /\ ts_actual' = actual
        /\ ts_pc' = "header"
        /\ UNCHANGED <<ts_tarball_size, ts_sink, ts_ret>>
        /\ UNCHANGED nonser

\* tarball_size += encoded_header.len(); write_all(encoded_header)
TarSerializeHeader ==
    /\ ts_pc = "header"
    /\ ts_tarball_size' = ts_tarball_size + ts_traversal.encoded_header
    /\ ts_sink' = Append(ts_sink, Chunk("encoded_header", ts_traversal.encoded_header))
    /\ ts_pc' = IF ts_traversal.file_type = "FileStream" THEN "file" ELSE "padding"
    /\ UNCHANGED <<ts_traversal, ts_actual, ts_ret>>
    /\ UNCHANGED nonser

\* the FileStream block: the prefix, the seek, io::copy and the size check
TarSerializeFile ==
    /\ ts_pc = "file"
    /\ ts_sink' = ts_sink
                      \o (IF IsSome(ts_traversal.file_prefix)
                          THEN <<Chunk("file_prefix", Unwrap(ts_traversal.file_prefix))>>
                          ELSE <<>>)
                      \o <<Chunk("file", serialize_copied(ts_actual, ts_traversal.file_prefix))>>
    /\ ts_tarball_size' =
           ts_tarball_size
               + (IF IsSome(ts_traversal.file_prefix) THEN Unwrap(ts_traversal.file_prefix)
                  ELSE 0)
               + serialize_copied(ts_actual, ts_traversal.file_prefix)
    /\ ts_pc' = IF ts_tarball_size' # ts_traversal.encoded_header + ts_traversal.file_size
                THEN "failed" ELSE "padding"
    /\ UNCHANGED <<ts_traversal, ts_actual, ts_ret>>
    /\ UNCHANGED nonser

\* the padding block and `Ok(tarball_size)`
TarSerializePadding ==
    /\ ts_pc = "padding"
    /\ ts_tarball_size' = serialize_padding(ts_tarball_size).tarball_size
    /\ ts_sink' = IF serialize_padding(ts_tarball_size).zeros > 0
                  THEN Append(ts_sink, Chunk("zeros", serialize_padding(ts_tarball_size).zeros))
                  ELSE ts_sink
    /\ ts_ret' = Some(serialize_padding(ts_tarball_size).tarball_size)
    /\ ts_pc' = "returned"
    /\ UNCHANGED <<ts_traversal, ts_actual>>
    /\ UNCHANGED nonser

SerNext ==
    \/ TarSerialize
    \/ TarSerializeHeader
    \/ TarSerializeFile
    \/ TarSerializePadding

----------------------------------------------------------------------------
(* SpecCreate: the create driver while no write fails: read_traverse        *)
(* (rapidtar.rs 221-242) spawns one traverse per path on the pool, traverse *)
(* (traverse.rs 79-126) sends a result and spawns one job per directory     *)
(* entry inside rayon::scope, serialize_proc (rapidtar.rs 193-213) receives *)
(* until the channel is closed, close_tarball (247-256) writes the marker.  *)
(* An entry of a directory is a file.                                       *)

\* a job on the pool: traverse of traversal path `path` (parent 0), or of
\* entry `path` of the directory that traversal path `parent` names
TraverseJob(path, parent) == [path |-> path, parent |-> parent]

\* a traverse call a pool thread is inside: blocked in c.send ("send") or at
\* the end of rayon::scope until the jobs spawned in it have finished ("scope")
TraverseCall(job, pc) == [path |-> job.path, parent |-> job.parent, pc |-> pc]

\* main is inside serialize_proc: the process runs
CreateRunning == cd_pc = "serialize"

\* traverse returns, to a job of a scope or to the closure of read_traverse:
\* its sender is dropped and its scope, if it belongs to one, has one job less
TraverseReturned(job) ==
    /\ cd_senders' = cd_senders - 1
    /\ cd_kids' = IF job.parent = 0 THEN cd_kids
                  ELSE [cd_kids EXCEPT ![job.parent] = @ - 1]

\* read_traverse: the channel is made, one job per traversal path is spawned
\* with a clone of the sender, the sender itself is dropped on return; main
\* goes on into serialize_proc
CreateReadTraverse ==
    \E depth \in 0 .. MaxQueueDepth, threads \in 1 .. MaxTravWorkers,
       n \in 0 .. MaxTopPaths :
        \E tree \in [1 .. n -> 0 .. MaxEntries] :
            /\ cd_pc = "main"
            /\ cd_pc' = "serialize"
            /\ cd_depth' = depth
            /\ cd_tree' = tree
            /\ cd_threads' = [t \in 1 .. threads |-> <<>>]
            /\ cd_tasks' = {TraverseJob(i, 0) : i \in 1 .. n}
            /\ cd_kids' = [i \in 1 .. n |-> 0]
            /\ cd_senders' = n
            /\ UNCHANGED <<cd_chan, cd_received>>
            /\ UNCHANGED noncreate

\* a pool thread that is idle, or waiting at the end of a scope, takes a job
\* and runs traverse up to c.send. symlink_metadata or archive_header_fn may
\* return Err: a job of a scope reports it and ends, the closure of
\* read_traverse unwraps it and panics, and the pool, built without a
\* panic_handler (rapidtar.rs 263-265), aborts the process
PoolRunsTraverse ==
    \E t \in DOMAIN cd_threads, job \in cd_tasks, ok \in BOOLEAN :
        /\ CreateRunning
        /\ IF cd_threads[t] = <<>> THEN TRUE ELSE Head(cd_threads[t]).pc = "scope"
        /\ cd_tasks' = cd_tasks \ {job}
        /\ IF ok
           THEN /\ cd_threads' = [cd_threads EXCEPT
                                     ![t] = <<TraverseCall(job, "send")>> \o @]
                /\ UNCHANGED <<cd_pc, cd_senders, cd_kids>>
           ELSE IF job.parent = 0
                THEN /\ cd_pc' = "aborted"
                     /\ UNCHANGED <<cd_threads, cd_senders, cd_kids>>
                ELSE /\ TraverseReturned(job)
                     /\ UNCHANGED <<cd_pc, cd_threads>>
        /\ UNCHANGED <<cd_depth, cd_tree, cd_chan, cd_received>>
        /\ UNCHANGED noncreate

\* traverse after c.send has returned on pool thread t. A directory: inside
\* rayon::scope read_dir(..).unwrap() and canonicalize(..).unwrap() succeed
\* (ok) and one job per entry is spawned with a clone of the sender, or one
\* of them panics and the process is aborted. A file: drop(c), return.
TraverseAfterSend(t, ok) ==
    IF Head(cd_threads[t]).parent = 0 /\ cd_tree[Head(cd_threads[t]).path] > 0
    THEN IF ok
         THEN /\ cd_threads' = [cd_threads EXCEPT
                                   ![t] = <<[Head(@) EXCEPT !.pc = "scope"]>> \o Tail(@)]
              /\ cd_tasks' = cd_tasks \cup
                                {TraverseJob(k, Head(cd_threads[t]).path) :
                                    k \in 1 .. cd_tree[Head(cd_threads[t]).path]}
              /\ cd_kids' = [cd_kids EXCEPT ![Head(cd_threads[t]).path] =
                                                cd_tree[Head(cd_threads[t]).path]]
              /\ cd_senders' = cd_senders + cd_tree[Head(cd_threads[t]).path]
              /\ UNCHANGED cd_pc
         ELSE /\ cd_pc' = "aborted"
              /\ UNCHANGED <<cd_threads, cd_tasks, cd_kids, cd_senders>>
    ELSE /\ ok
         /\ cd_threads' = [cd_threads EXCEPT ![t] = Tail(@)]
         /\ TraverseReturned(Head(cd_threads[t]))
         /\ UNCHANGED <<cd_pc, cd_tasks>>

\* c.send returns on a channel with room: the result is queued
TraverseSendReturns ==
    \E t \in DOMAIN cd_threads, ok \in BOOLEAN :
        /\ CreateRunning
        /\ cd_threads[t] # <<>>
        /\ Head(cd_threads[t]).pc = "send"
        /\ ~SyncSender_would_block([i \in 1 .. cd_chan |-> i], cd_depth)
        /\ cd_chan' = cd_chan + 1
        /\ TraverseAfterSend(t, ok)
        /\ UNCHANGED <<cd_depth, cd_tree, cd_received>>
        /\ UNCHANGED noncreate

\* on a channel of depth 0 the result passes from the blocked sender to
\* receiver.recv() in serialize_proc, which writes the entry
CreateRendezvous ==
    \E t \in DOMAIN cd_threads, ok \in BOOLEAN :
        /\ CreateRunning
        /\ cd_depth = 0
        /\ cd_threads[t] # <<>>
        /\ Head(cd_threads[t]).pc = "send"
        /\ cd_received' = cd_received + 1
        /\ TraverseAfterSend(t, ok)
        /\ UNCHANGED <<cd_depth, cd_tree, cd_chan>>
        /\ UNCHANGED noncreate

\* rayon::scope returns once every job spawned in it has finished: drop(c),
\* traverse returns Ok
TraverseScopeReturns ==
    \E t \in DOMAIN cd_threads :
        /\ CreateRunning
        /\ cd_threads[t] # <<>>
        /\ Head(cd_threads[t]).pc = "scope"
        /\ cd_kids[Head(cd_threads[t]).path] = 0
        /\ cd_threads' = [cd_threads EXCEPT ![t] = Tail(@)]
        /\ TraverseReturned(Head(cd_threads[t]))
        /\ UNCHANGED <<cd_pc, cd_depth, cd_tree, cd_tasks, cd_chan, cd_received>>
        /\ UNCHANGED noncreate

\* serialize_proc: receiver.recv() returns a queued result and the entry is
\* written (no write fails)
CreateSerializeEntry ==
    /\ CreateRunning
    /\ cd_chan > 0
    /\ cd_chan' = cd_chan - 1
    /\ cd_received' = cd_received + 1
    /\ UNCHANGED <<cd_pc, cd_depth, cd_tree, cd_threads, cd_tasks, cd_kids, cd_senders>>
    /\ UNCHANGED noncreate

\* receiver.recv() returns Err: nothing is queued and every sender is
\* dropped; serialize_proc returns Ok and main calls close_tarball, which
\* writes the end-of-archive marker
CreateCloseTarball ==
    /\ CreateRunning
    /\ cd_chan = 0
    /\ cd_senders = 0
    /\ cd_pc' = "closed"
    /\ UNCHANGED <<cd_depth, cd_tree, cd_threads, cd_tasks, cd_kids, cd_senders,
                   cd_chan, cd_received>>
    /\ UNCHANGED noncreate

CreateNext ==
    \/ CreateReadTraverse
    \/ PoolRunsTraverse
    \/ TraverseSendReturns
    \/ CreateRendezvous
    \/ TraverseScopeReturns
    \/ CreateSerializeEntry
    \/ CreateCloseTarball

Init ==
    /\ zone_a = DataZone_slack_zone
    /\ zone_b = DataZone_slack_zone
    /\ zone_last = NoCall
    /\ dzs = DataZoneStream_new
    /\ dzs_behind = DataZoneStream_new
    /\ snapshot = NoSnapshot
    /\ dzs_last = NoStreamCall
    /\ commit_total = 0
    /\ overhang_total = 0
    /\ popped_total = 0
    /\ bw = BlockingWriter_new_with_factor(1)
    /\ bw_input = 0
    /\ bw_written = <<>>
    /\ bw_last = NoBWCall
    /\ bw_faults = 0
    /\ bw_failed = FALSE
    /\ bw_phase = "writing"
    /\ bw_flushes = 0
    /\ rt_format = "POSIX"
    /\ rt_pc = "main"
    /\ rt_next = 0
    /\ rt_file = 0
    /\ rt_pos = 0
    /\ rt_offset = 0
    /\ rt_lost = <<>>
    /\ rt_iter = 1
    /\ rt_torn = {}
    /\ sink = ConcurrentWriteBuffer_new(BufLimit)
    /\ volumes = <<>>
    /\ rt_spanning = FALSE
    /\ rt_reported = {}
    /\ rt_faults = 0
    /\ cwb = ConcurrentWriteBuffer_new(CwbLimit)
    /\ cwb_pc = "idle"
    /\ cwb_call = NoCwbCall
    /\ cwb_inner = <<>>
    /\ cwb_sent = <<>>
    /\ cwb_worker = "alive"
    /\ cwb_count = NoCwbCount
    /\ cli_pc = "prompt"
    /\ cli_cancelled = FALSE
    /\ cli_outfile = DefaultOutfile
    /\ cli_last = NoCliLine
    /\ cli_lines = 0
    /\ tr_pc = "main"
    /\ tr_depth = 0
    /\ tr_chan = <<>>
    /\ tr_workers = <<>>
    /\ tr_found = 0
    /\ tr_recvd = <<>>
    /\ tp_pc = "closed"
    /\ tp_tape = <<>>
    /\ tp_dev = NoDevice
    /\ tp_out = <<>>
    /\ tp_last = NoTapeCall
    /\ tp_calls = 0
    /\ sc_pc = "idle"
    /\ sc_source = <<>>
    /\ sc_rpos = 0
    /\ sc_read_buf = NoVec
    /\ sc_write_buf = NoVec
    /\ sc_written = 0
    /\ sc_sink = <<>>
    /\ ts_pc = "idle"
    /\ ts_traversal = NoTraversal
    /\ ts_actual = 0
    /\ ts_tarball_size = 0
    /\ ts_sink = <<>>
    /\ ts_ret = None
    /\ cd_pc = "main"
    /\ cd_depth = 0
    /\ cd_tree = <<>>
    /\ cd_threads = <<>>
    /\ cd_tasks = {}
    /\ cd_kids = <<>>
    /\ cd_senders = 0
    /\ cd_chan = 0
    /\ cd_received = 0

SpecZone == Init /\ [][ZoneNext]_vars

SpecStream == Init /\ [][StreamNext]_vars

SpecMerge == Init /\ [][MergeNext]_vars

SpecBW == Init /\ [][BWNext]_vars

SpecRec == Init /\ [][RecNext]_vars

SpecCWB == Init /\ [][CWBNext]_vars

SpecCli == Init /\ [][CliNext]_vars

SpecTrav == Init /\ [][TravNext]_vars

SpecRecover == Init /\ [][RecoverNext]_vars

SpecCopy == Init /\ [][CopyNext]_vars

SpecSer == Init /\ [][SerNext]_vars

SpecTapeDrop == Init /\ [][TapeDropNext]_vars

SpecTape == Init /\ [][TapeNext]_vars

\* every pool thread and the main thread keep running: a step of the pool or
\* of serialize_proc that stays possible is eventually taken
SpecCreate ==
    /\ Init
    /\ [][CreateNext]_vars
    /\ WF_vars(CreateReadTraverse)
    /\ WF_vars(PoolRunsTraverse)
    /\ WF_vars(TraverseSendReturns)
    /\ WF_vars(CreateRendezvous)
    /\ WF_vars(TraverseScopeReturns)
    /\ WF_vars(CreateSerializeEntry)
    /\ WF_vars(CreateCloseTarball)

----------------------------------------------------------------------------
(* Properties of DataZone (checked under SpecZone) *)

\* C7: merge_zone returns None when the two identities differ; when they are
\* equal (two slack zones included) it returns a zone of that identity with
\* length = max of the lengths, committed_length = min of the committed lengths
\* and uncommitted_length = length - committed_length, and the result does not
\* depend on which of the two zones is the receiver.
C7_MergeZone ==
    zone_last.op = "merge_zone" =>
        LET self == zone_last.pre
            other == zone_last.other
        IN  /\ self.ident # other.ident => zone_last.merged = None
            /\ self.ident = other.ident =>
                /\ IsSome(zone_last.merged)
                /\ Unwrap(zone_last.merged).ident = self.ident
                /\ Unwrap(zone_last.merged).length = Max(self.length, other.length)
                /\ Unwrap(zone_last.merged).committed_length =
                       Min(self.committed_length, other.committed_length)
                /\ Unwrap(zone_last.merged).uncommitted_length =
                       Unwrap(zone_last.merged).length
                           - Unwrap(zone_last.merged).committed_length
            /\ zone_last.merged = zone_last.merged_rev

\* two zones of one identity merged where the receiver is the shorter zone and
\* has committed more than the other
C7_Witness ==
    /\ zone_last.op = "merge_zone"
    /\ IsSome(zone_last.merged)
    /\ IsSome(zone_last.pre.ident)
    /\ zone_last.pre.length < zone_last.other.length
    /\ zone_last.pre.committed_length > zone_last.other.committed_length

----------------------------------------------------------------------------
(* Properties of DataZoneStream.write_committed (checked under SpecStream) *)

\* The equation as the specification's testable property states it: committed
\* bytes of the snapshot plus the overhangs equal the write_committed arguments.
C4_SnapshotSum ==
    dzs_last.op = "uncommitted_writes" =>
        SumCommitted(snapshot.zones) + overhang_total = commit_total

\* C4: at every uncommitted_writes(None) snapshot, the committed_length of the
\* snapshot's zones, plus the committed_length of the zones write_committed has
\* popped from the pending queue (they are no longer part of any snapshot),
\* plus every overhang write_committed returned, equals the sum of all
\* write_committed arguments.
C4_SnapshotSumWithPopped ==
    dzs_last.op = "uncommitted_writes" =>
        SumCommitted(snapshot.zones) + popped_total + overhang_total = commit_total

\* a snapshot taken after commits that popped a zone, left committed bytes in
\* a zone still listed and overran the ledger at least once
C4_Witness ==
    /\ dzs_last.op = "uncommitted_writes"
    /\ popped_total > 0
    /\ overhang_total > 0
    /\ SumCommitted(snapshot.zones) > 0

\* uncommitted bytes of the zones in front of zone i
C5_Before(zones, i) == SumUncommitted(SubSeq(zones, 1, i - 1))

\* what a commit of n bytes takes from zone i when the zones are debited in order
C5_Debit(zones, i, n) == Min(zones[i].uncommitted_length, Max(0, n - C5_Before(zones, i)))

C5_Debited(zones, n) ==
    [i \in 1 .. Len(zones) |->
        [zones[i] EXCEPT !.uncommitted_length = @ - C5_Debit(zones, i, n),
                         !.committed_length = @ + C5_Debit(zones, i, n)]]

\* pending zones a commit of n bytes runs past: their uncommitted bytes and
\* those of every zone in front of them together are fewer than n
C5_Passed(zones, n) ==
    {i \in 1 .. Len(zones) : C5_Before(zones, i) + zones[i].uncommitted_length < n}

\* C5: write_committed(n) debits the zones oldest first (each zone gives
\* min(its uncommitted bytes, what of n is left after the zones in front of it),
\* the current zone last), drops from the pending queue exactly the zones the
\* commit runs past, keeps the rest in order, and returns Some(n - total) when n
\* is more than the uncommitted bytes of pending and current zones together and
\* None otherwise.
C5_FifoCommit ==
    [][dzs_last'.op = "write_committed" =>
        LET n == dzs_last'.arg
            zones == StreamZones(dzs)
            debited == C5_Debited(zones, n)
            np == Len(dzs.pending_zones)
            passed == C5_Passed(dzs.pending_zones, n)
            total == SumUncommitted(zones)
        IN  /\ dzs'.pending_zones = SubSeq(debited, Cardinality(passed) + 1, np)
            /\ passed = 1 .. Cardinality(passed)
            /\ dzs'.cur_zone = SubSeq(debited, np + 1, Len(zones))
            /\ dzs_last'.ret = IF n > total THEN Some(n - total) ELSE None
    ]_vars

\* a commit that ran past one pending zone, took part of the next pending zone
\* and left a current zone with uncommitted bytes untouched
C5_Witness ==
    /\ dzs_last.op = "write_committed"
    /\ dzs_last.ret = None
    /\ popped_total > 0
    /\ Len(dzs.pending_zones) > 0
    /\ dzs.pending_zones[1].committed_length > 0
    /\ dzs.pending_zones[1].uncommitted_length > 0
    /\ IsSome(dzs.cur_zone)
    /\ Unwrap(dzs.cur_zone).uncommitted_length > 0
    /\ Unwrap(dzs.cur_zone).committed_length = 0

----------------------------------------------------------------------------
(* Properties of the ledger of two chained stages (checked under SpecMerge) *)

C3_ZoneOk(z) ==
    /\ z.length = z.committed_length + z.uncommitted_length
    /\ z.committed_length <= z.length
    /\ z.committed_length >= 0
    /\ z.uncommitted_length >= 0

C3_AllOk(zones) == \A i \in 1 .. Len(zones) : C3_ZoneOk(zones[i])

\* a zone of the stream that is still in the stream after the step (zones of
\* a file are told apart by identity, the current slack zone by its place)
C3_NoShrink(s, t) ==
    /\ \A i \in 1 .. Len(StreamZones(s)), j \in 1 .. Len(StreamZones(t)) :
           (/\ IsSome(StreamZones(s)[i].ident)
            /\ StreamZones(s)[i].ident = StreamZones(t)[j].ident)
               => StreamZones(s)[i].length <= StreamZones(t)[j].length
    /\ (/\ IsSome(s.cur_zone) /\ IsSome(t.cur_zone)
        /\ Len(s.pending_zones) = Len(t.pending_zones)
        /\ Unwrap(s.cur_zone).ident = Unwrap(t.cur_zone).ident)
           => Unwrap(s.cur_zone).length <= Unwrap(t.cur_zone).length

\* C3: every zone of either stage's ledger, whatever sequence of
\* write_through, write_buffered and write_committed it went through since
\* new, for_resumption or slack_zone made it, has length = committed_length +
\* uncommitted_length and committed_length <= length; so has every zone of
\* every snapshot uncommitted_writes returns, merged or not; and no step makes
\* the length of a zone smaller.
C3_ZoneInvariants ==
    /\ [](/\ C3_AllOk(StreamZones(dzs))
          /\ C3_AllOk(StreamZones(dzs_behind))
          /\ C3_AllOk(snapshot.zones))
    /\ [][C3_NoShrink(dzs, dzs') /\ C3_NoShrink(dzs_behind, dzs_behind')]_vars

\* a chained snapshot holding a zone merge_zone built from two differing
\* zones: written through above, still uncommitted below
C3_Witness ==
    /\ dzs_last.op = "uncommitted_writes"
    /\ dzs_last.arg = 1
    /\ \E i \in 1 .. Len(snapshot.zones), j \in 1 .. Len(StreamZones(dzs)) :
           /\ snapshot.zones[i].ident = StreamZones(dzs)[j].ident
           /\ IsSome(snapshot.zones[i].ident)
           /\ snapshot.zones[i].uncommitted_length > 0
           /\ StreamZones(dzs)[j].uncommitted_length = 0
           /\ StreamZones(dzs)[j].committed_length > 0

C6_Idents(zones) == [i \in 1 .. Len(zones) |-> zones[i].ident]

\* C6: when the stream's zones (pending in order, then current) and the
\* chain carry the same identities in the same order, each identity once,
\* uncommitted_writes(Some(chain)) returns one zone per identity, the merge of
\* the chain's zone with the stream's zone (length the larger, committed_length
\* the smaller of the two), however many zones are pending.
C6_MergesEveryPending ==
    (dzs_last.op = "uncommitted_writes" /\ dzs_last.arg = 1) =>
        LET mine == StreamZones(dzs)
            chain == DataZoneStream_uncommitted_writes(dzs_behind, None).zones
        IN  (/\ Len(mine) > 0
             /\ C6_Idents(mine) = C6_Idents(chain)
             /\ \A i, j \in 1 .. Len(mine) :
                    (IsSome(mine[i].ident) /\ mine[i].ident = mine[j].ident) => i = j
             /\ \A i \in 1 .. Len(mine) : IsSome(mine[i].ident))
            => snapshot.zones =
                   [i \in 1 .. Len(mine) |->
                       [ident |-> mine[i].ident,
                        length |-> Max(mine[i].length, chain[i].length),
                        committed_length |->
                            Min(mine[i].committed_length, chain[i].committed_length),
                        uncommitted_length |->
                            Max(mine[i].length, chain[i].length)
                                - Min(mine[i].committed_length, chain[i].committed_length)]]

----------------------------------------------------------------------------
(* Properties of BlockingWriter (checked under SpecBW) *)

C10_SinkIsPrefix ==
    /\ Len(bw.inner.data) <= Len(bw_written)
    /\ \A i \in 1 .. Len(bw.inner.data) : bw.inner.data[i] = bw_written[i]

\* the sink holds every byte of the written buffers, in order, then only zeros
C10_SinkIsAllThenZeros ==
    /\ Len(bw.inner.data) >= Len(bw_written)
    /\ \A i \in 1 .. Len(bw.inner.data) :
           bw.inner.data[i] = IF i <= Len(bw_written) THEN bw_written[i] ELSE 0

\* the same two with every buffer handed to write_all counted as written,
\* also the buffer of a call that returned an error
C10_SinkIsPrefixOfHanded ==
    /\ Len(bw.inner.data) <= bw_input
    /\ \A i \in 1 .. Len(bw.inner.data) : bw.inner.data[i] = i

C10_SinkIsAllHandedThenZeros ==
    /\ Len(bw.inner.data) >= bw_input
    /\ \A i \in 1 .. Len(bw.inner.data) :
           bw.inner.data[i] = IF i <= bw_input THEN i ELSE 0

----------------------------------------------------------------------------
(* Properties of spanning recovery (checked under SpecRec) *)

\* the data records of file f in a volume's content, by index
C1_DataOf(content, f) ==
    [i \in 1 .. Len(SelectSeq(content, LAMBDA r : r.kind = "data" /\ r.file = f)) |->
        SelectSeq(content, LAMBDA r : r.kind = "data" /\ r.file = f)[i].ix]

\* the same over a list of volumes, in volume order
RECURSIVE C1_DataOnVolumes(_, _)
C1_DataOnVolumes(vols, f) ==
    IF vols = <<>>
    THEN <<>>
    ELSE C1_DataOf(Head(vols).content, f) \o C1_DataOnVolumes(Tail(vols), f)

\* C1: once recovery has completed and the archive has been closed and flushed,
\* the data records on the volumes of every file that was in a list of lost
\* zones are, in volume order, exactly the file's records 1..FileSize, each
\* once -- in the USTAR format as in the POSIX format. (Runs in which a medium
\* answered with an error other than WriteZero are left aside.)
C1_ExactlyOnce ==
    (rt_pc = "done" /\ rt_faults = 0) =>
        \A f \in rt_torn : C1_DataOnVolumes(volumes, f) = [i \in 1 .. FileSize |-> i]

\* C2: in the POSIX format every header on a volume that carries a
\* recovery_seek_offset carries the number of data records of its file on all
\* earlier volumes, and the data record after it is the next one of the file.
\* (Runs in which a medium answered with an error other than WriteZero are left
\* aside.)
C2_PriorTotal ==
    (rt_format = "POSIX" /\ rt_faults = 0) =>
        \A v \in 1 .. Len(volumes) :
            \A i \in 1 .. Len(volumes[v].content) :
                (volumes[v].content[i].kind = "hdr" /\ IsSome(volumes[v].content[i].seek)) =>
                    /\ Unwrap(volumes[v].content[i].seek) =
                           Len(C1_DataOnVolumes(SubSeq(volumes, 1, v - 1),
                                                volumes[v].content[i].file))
                    /\ (i < Len(volumes[v].content) /\ volumes[v].content[i + 1].kind = "data")
                           => volumes[v].content[i + 1].ix =
                                  Unwrap(volumes[v].content[i].seek) + 1

----------------------------------------------------------------------------
(* Properties of the BlockingWriter's ledger (checked under SpecBW) *)

\* the uncommitted bytes of the zones a snapshot lists
RECURSIVE C11_Uncommitted(_)
C11_Uncommitted(zones) ==
    IF zones = <<>> THEN 0
    ELSE Head(zones).uncommitted_length + C11_Uncommitted(Tail(zones))

\* while no call has failed, the zones uncommitted_writes lists hold as
\* uncommitted no more than the bytes in the record buffer
C11_BufferedAreUncommitted ==
    (bw_phase = "writing" /\ ~bw_failed /\ bw_last.ret = "ok")
        => C11_Uncommitted(BlockingWriter_uncommitted_writes(bw).zones) <= Len(bw.block)

\* right after a successful flush uncommitted_writes lists nothing
C11_EmptyAfterFlush ==
    (bw_last.op = "flush" /\ bw_last.ret = "ok" /\ ~bw_failed)
        => BlockingWriter_uncommitted_writes(bw).zones = <<>>

\* C11: over an inner sink that buffers nothing, uncommitted_writes reports the
\* begun zones with the bytes still in the record buffer as uncommitted, and
\* after a successful flush it reports nothing, whatever was begun and written
\* before the flush -- also when the buffered bytes fill the record exactly.
C11_LedgerFollowsBlock ==
    C11_BufferedAreUncommitted /\ C11_EmptyAfterFlush

----------------------------------------------------------------------------
(* C12: what the inner sink of a ConcurrentWriteBuffer receives.            *)

\* the command a call on the inner sink belongs to, as cwb_sent lists it
C12_SentOf(call) ==
    CASE call.op = "write" -> Sent("DoWriteAll", call.id, call.len)
      [] call.op = "flush" -> Sent("DoFlush", 0, 0)
      [] call.op = "begin_data_zone" -> Sent("DoBeginDataZone", 0, 0)
      [] call.op = "end_data_zone" -> Sent("DoEndDataZone", 0, 0)

C12_IsFirstCall(call) == call.offset = 0

\* the commands executed so far: one per first call on the inner sink
C12_Executed ==
    [i \in 1 .. Len(SelectSeq(cwb_inner, C12_IsFirstCall)) |->
        C12_SentOf(SelectSeq(cwb_inner, C12_IsFirstCall)[i])]

\* the commands still queued
C12_Queued ==
    [i \in 1 .. Len(cwb.cmd_send) |->
        IF cwb.cmd_send[i].op = "DoWriteAll"
        THEN Sent("DoWriteAll", Unwrap(cwb.cmd_send[i].data).id,
                  Unwrap(cwb.cmd_send[i].data).len)
        ELSE Sent(cwb.cmd_send[i].op, 0, 0)]

\* executed commands, then queued ones, are the commands sent, in program
\* order; a worker that has ended leaves a prefix executed
C12_ProgramOrder ==
    /\ Len(C12_Executed) <= Len(cwb_sent)
    /\ C12_Executed = SubSeq(cwb_sent, 1, Len(C12_Executed))
    /\ cwb_worker = "alive" => C12_Executed \o C12_Queued = cwb_sent

\* a call that does not start at the head of its buffer directly follows a
\* call on the same buffer that took only part of what it was offered, and
\* offers exactly the rest
C12_OnlyPartialAcceptSplits ==
    \A i \in 1 .. Len(cwb_inner) :
        cwb_inner[i].offset > 0 =>
            /\ i > 1
            /\ cwb_inner[i - 1].op = "write"
            /\ cwb_inner[i - 1].id = cwb_inner[i].id
            /\ cwb_inner[i - 1].ret = "ok"
            /\ cwb_inner[i - 1].taken < cwb_inner[i - 1].len
            /\ cwb_inner[i].offset = cwb_inner[i - 1].offset + cwb_inner[i - 1].taken
            /\ cwb_inner[i].len = cwb_inner[i - 1].len - cwb_inner[i - 1].taken

\* C12 as stated: the inner sink receives the producer's writes in the order
\* write() was called, exactly one write call per write() carrying the whole
\* buffer, never split, with zone and flush commands in their program-order
\* position.
C12_OneCallPerWrite ==
    /\ C12_ProgramOrder
    /\ \A i \in 1 .. Len(cwb_inner) : C12_IsFirstCall(cwb_inner[i])

\* C12 amended: the inner sink receives the commands in program order, one
\* write_all per write() that first offers the whole buffer; a buffer is
\* offered in further calls only when the sink took part of it, and then the
\* calls of one buffer are adjacent and offer exactly the remainder.
C12_InOrderSplitOnlyByPartialAccept ==
    C12_ProgramOrder /\ C12_OnlyPartialAcceptSplits

\* a buffer was split by a partial accept and a later write() has reached the
\* sink after it
C12_Witness ==
    \E i, j \in 1 .. Len(cwb_inner) :
        /\ i < j
        /\ cwb_inner[i].offset > 0
        /\ cwb_inner[j].op = "write"
        /\ cwb_inner[j].id # cwb_inner[i].id

----------------------------------------------------------------------------
(* C13: the quota of a ConcurrentWriteBuffer.                               *)

\* the producer's last call was a write that returned Ok
C13_WriteReturned == cwb_pc = "idle" /\ cwb_call.op = "write" /\ cwb_call.ret = "ok"

\* C13: write(b) with |b| <= quota enqueues b only once buffered_bytes + |b|
\* <= quota, so after such a write returns buffered_bytes <= quota; only a
\* request with |b| > quota is enqueued without waiting.
C13_WithinQuota ==
    (C13_WriteReturned /\ cwb_call.len <= cwb.buffered_limit)
        => cwb.buffered_size <= cwb.buffered_limit

----------------------------------------------------------------------------
(* C14: what a successful flush of a ConcurrentWriteBuffer guarantees.      *)

\* the producer's last call was a flush that returned Ok
C14_FlushReturned == cwb_pc = "idle" /\ cwb_call.op = "flush" /\ cwb_call.ret = "ok"

\* the worker has taken every command sent up to and including this flush
C14_OwnFlushExecuted == Len(C12_Executed) = Len(cwb_sent)

\* C14: flush() returns Ok only after the DidFlush response of this flush
\* request has arrived: every write enqueued before it has been executed on
\* the inner sink and credited (buffered_size = 0) and the inner sink's flush
\* has completed, also when an earlier flush returned an error.
C14_FlushOkMeansFlushed ==
    C14_FlushReturned => (C14_OwnFlushExecuted /\ cwb.buffered_size = 0)

----------------------------------------------------------------------------
(* C15: when a failed write of the worker reaches the producer.             *)

\* the producer's last call was a write or flush that has returned, and when
\* it was made a failed write of the worker was waiting to be reported
C15_ReturnedAfterFailure ==
    /\ cwb_pc = "idle"
    /\ cwb_call.op \in {"write", "flush"}
    /\ cwb_call.failed_before

\* C15: if the worker's write to the inner sink fails, the very next write()
\* or flush() made after the failure returns that error, whatever headroom
\* the quota still has.
C15_NextCallReturnsError ==
    C15_ReturnedAfterFailure => cwb_call.ret = "Other"

----------------------------------------------------------------------------
(* C19: resume_data_zone on a buffering stage.                              *)

\* C19: resume_data_zone(id, committed) on a buffering stage ends the stage's
\* current zone and opens a current zone with identity id and length =
\* committed_length = committed (uncommitted 0) in the stage's own ledger,
\* which a later uncommitted_writes() reports, and forwards the call to the
\* inner sink.
C19_ResumeOpensZone ==
    (cwb_pc = "idle" /\ cwb_call.op = "resume_data_zone")
        => /\ cwb.current_data_zone = Some(DataZone_for_resumption(cwb_call.id, cwb_call.len))
           /\ ConcurrentWriteBuffer_uncommitted_writes(cwb) # <<>>
           /\ cwb_sent # <<>>

----------------------------------------------------------------------------
(* C20: a ConcurrentWriteBuffer whose worker has ended.                     *)

\* the producer's last write or flush was made after the worker had ended
C20_CalledAfterWorkerEnded ==
    cwb_call.op \in {"write", "flush"} /\ cwb_call.ended_before

\* C20: if the worker has ended unexpectedly, the next write() or flush()
\* returns an io::Error to the caller and does not panic.
C20_ReturnsErrorNoPanic ==
    C20_CalledAfterWorkerEnded =>
        /\ cwb_pc # "panicked"
        /\ cwb_pc = "idle" => cwb_call.ret \in {"terminated", "Other"}

----------------------------------------------------------------------------
(* C16..C18: how the create driver ends an archive (checked under SpecRec)  *)

C18_IsMarker(r) == r.kind = "eof"

C18_IsMarkerCommand(cmd) == cmd.op = "DoWriteAll" /\ C18_IsMarker(Unwrap(cmd.data))

\* end-of-archive markers on the volumes
RECURSIVE C18_Written(_)
C18_Written(vols) ==
    IF vols = <<>> THEN 0
    ELSE Len(SelectSeq(Head(vols).content, C18_IsMarker)) + C18_Written(Tail(vols))

\* end-of-archive markers handed to the sink and not yet written
C18_Queued == Len(SelectSeq(sink.cmd_send, C18_IsMarkerCommand))

\* serialize_proc is about to return Err of this kind
C16_FailsWith(kind) == SerializeProcFails /\ Head(sink.resp_recv).ret = kind

\* a step of main: the worker's steps leave rt_pc alone
C16_MainSteps == rt_pc' # rt_pc

C16_Step ==
    /\ (rt_pc = "serialize" /\ rt_pc' = "recover_proc")
           => (C16_FailsWith("WriteZero") /\ rt_spanning)
    /\ (C16_FailsWith("WriteZero") /\ C16_MainSteps /\ rt_spanning)
           => rt_pc' = "recover_proc"
    /\ (C16_FailsWith("WriteZero") /\ C16_MainSteps /\ ~rt_spanning)
           => /\ rt_pc' = "stopped"
              /\ Reported(rt_file, "Ran out of space archiving file") \in rt_reported'
    /\ (C16_FailsWith("Other") /\ C16_MainSteps)
           => rt_pc' \notin {"recover_proc", "recover_data", "recover"}
    /\ rt_pc' = "stopped" => (C18_Written(volumes') = 0 /\ C18_Queued' = 0)
    /\ (rt_pc \in {"serialize", "recover", "recover_proc", "recover_data"})
           => rt_pc' # "failed"

C17_DeviceErrorReported == \E r \in rt_reported : r.msg = "Error archiving file"

\* C17: on a sink write error other than WriteZero the driver reports the
\* failed entry and aborts the run: no further entry is serialized and no
\* end-of-archive marker is written after the error.
C17_AbortsOnDeviceError ==
    C17_DeviceErrorReported
        => /\ rt_pc # "serialize"
           /\ C18_Written(volumes) = 0
           /\ C18_Queued = 0

\* the marker, where there is one, is the last thing handed to the sink and
\* the last thing on the volumes, and a flush request follows it
C18_MarkerIsLast ==
    /\ C18_Queued = 1 =>
           /\ Len(sink.cmd_send) >= 2
           /\ C18_IsMarkerCommand(sink.cmd_send[Len(sink.cmd_send) - 1])
           /\ sink.cmd_send[Len(sink.cmd_send)].op = "DoFlush"
    /\ C18_Written(volumes) = 1 =>
           /\ volumes[Len(volumes)].content # <<>>
           /\ C18_IsMarker(volumes[Len(volumes)].content[Len(volumes[Len(volumes)].content)])
           /\ \A i \in 1 .. Len(sink.cmd_send) : sink.cmd_send[i].op # "DoWriteAll"

C18_State ==
    /\ C18_Written(volumes) + C18_Queued <= 1
    /\ C18_MarkerIsLast
    /\ C18_Written(volumes) + C18_Queued = 1
           => (rt_pc \in {"flush", "done", "failed"} /\ rt_next = NumFiles)
    /\ rt_pc = "cancelled" => C18_Written(volumes) + C18_Queued = 0

C18_Step ==
    /\ C18_State'
    /\ C18_Queued' > C18_Queued
           => (rt_pc = "close_tarball" /\ C18_Written(volumes) + C18_Queued = 0)
    /\ rt_pc \in {"flush", "done", "failed", "cancelled", "stopped"}
           => (rt_pc' = rt_pc \/ rt_pc = "flush") /\ Len(sink'.cmd_send) <= Len(sink.cmd_send)

----------------------------------------------------------------------------
(* C21: the volume-exchange prompt (checked under SpecCli)                  *)

\* the last response read begins with these characters
C21_Typed(prefix) ==
    /\ cli_last.arm \notin {"none", "InvalidData", "Other"}
    /\ Len(cli_last.response) >= Len(prefix)
    /\ SubSeq(cli_last.response, 1, Len(prefix)) = prefix

\* C21: at the volume-exchange prompt `?` prints help and prompts again, `q`
\* sets the cancelled flag and ends the prompt, `y` ends the prompt keeping
\* the output path, `n <path>` sets the output path to <path> and ends the
\* prompt, any other line prompts again.
C21_PromptInputs ==
    /\ C21_Typed(<<"?">>) => (cli_last.arm = "help" /\ cli_pc = "prompt")
    /\ C21_Typed(<<"q">>) => (cli_cancelled /\ cli_pc = "returned")
    /\ C21_Typed(<<"y">>) =>
           (cli_pc = "returned" /\ ~cli_cancelled /\ cli_outfile = cli_last.outfile)
    /\ (C21_Typed(<<"n", " ">>) /\ Len(cli_last.response) >= 3) =>
           /\ cli_pc = "returned"
           /\ ~cli_cancelled
           /\ cli_outfile = SubSeq(cli_last.response, 3, Len(cli_last.response))
    /\ (C21_Typed(<<"a">>) \/ C21_Typed(<<" ">>) \/ C21_Typed(<<"LF">>)) =>
           (cli_last.arm = "invalid" /\ cli_pc = "prompt")

----------------------------------------------------------------------------
(* C22: back-pressure of the traversal channel (checked under SpecTrav)     *)

\* C22: the results queued in the channel never exceed channel_queue_depth,
\* and the results produced but not yet received by the serializer never
\* exceed channel_queue_depth plus the number of traversal workers.
C22_BackPressure ==
    /\ Len(tr_chan) <= tr_depth
    /\ tr_found - Len(tr_recvd) = Len(tr_chan) + Cardinality(Sending)
    /\ tr_found - Len(tr_recvd) <= tr_depth + Len(tr_workers)

\* the channel is full and every pool thread is blocked in send
C22_Witness ==
    /\ tr_depth >= 1
    /\ Len(tr_chan) = tr_depth
    /\ Len(tr_workers) >= 2
    /\ Sending = DOMAIN tr_workers

----------------------------------------------------------------------------
(* C23, C30: reading a tape (checked under SpecTape)                        *)

\* all bytes of the tape, in order
RECURSIVE C23_Concat(_)
C23_Concat(tape) == IF tape = <<>> THEN <<>> ELSE Head(tape) \o C23_Concat(Tail(tape))

\* C23: for any records and any interleaving of read and read_block calls the
\* bytes returned, concatenated, are the bytes of the records, concatenated:
\* a read_block after a partial read returns only the unread remainder of the
\* record and the next read starts at the following record.
C23_SameBytes ==
    /\ Len(tp_out) <= Len(C23_Concat(tp_tape))
    /\ tp_out = SubSeq(C23_Concat(tp_tape), 1, Len(tp_out))
    /\ (tp_last.op = "read_block" /\ tp_last.read_pos > 0) =>
           tp_last.ret = SubSeq(tp_tape[tp_last.pos - 1], tp_last.read_pos + 1,
                                Len(tp_tape[tp_last.pos - 1]))

\* the last call was a read_block that started at a record boundary with a
\* record left on the tape
C30_ReadBlockAtBoundary ==
    /\ tp_last.op = "read_block"
    /\ tp_last.read_pos = 0
    /\ tp_last.pos <= Len(tp_tape)

\* C30: when the next record is larger than the spill buffer, read_next_block
\* grows the buffer, spaces back one record and reads again within the same
\* call, so the caller receives the complete record exactly once.
C30_CompleteRecordOnce ==
    C30_ReadBlockAtBoundary =>
        /\ tp_last.ret = tp_tape[tp_last.pos]
        /\ tp_dev.pos = tp_last.pos + 1

----------------------------------------------------------------------------
(* C25, C27, C28: recovery onto the next volume (checked under SpecRec)     *)

\* the lost zone recover_data is re-streaming
C25_Zone == rt_lost[rt_iter - 1]

\* C25: for every lost zone that carries an identity recover_data re-streams
\* the file from offset max(0, committed_length - header_length), whatever the
\* archive format.
C25_OffsetSkipsCommitted ==
    rt_pc = "recover" =>
        rt_offset = IF C25_Zone.committed_length >= Unwrap(C25_Zone.ident).header_length
                    THEN C25_Zone.committed_length - Unwrap(C25_Zone.ident).header_length
                    ELSE 0

\* recover_data receives an error for a write made for the zone it is on
C27_WriteFails ==
    /\ rt_pc = "recover"
    /\ ConcurrentWriteBuffer_must_drain(sink, 1)
    /\ sink.resp_recv # <<>>
    /\ Head(sink.resp_recv).ret # "ok"
    /\ sink'.resp_recv = Tail(sink.resp_recv)

\* recover_data returns Ok(Some(list)), recover_data returns Ok(None)
C27_ReturnsSome == rt_pc \in {"recover", "recover_data"} /\ rt_pc' = "recover_proc"

C27_ReturnsNone == rt_pc \in {"recover", "recover_data"} /\ rt_pc' = "serialize_proc"

C27_Step ==
    /\ C27_WriteFails => C27_ReturnsSome
    /\ C27_ReturnsSome =>
           /\ rt_pc = "recover"
           /\ rt_lost' = ConcurrentWriteBuffer_uncommitted_writes(sink')
                             \o SubSeq(rt_lost, rt_iter, Len(rt_lost))
    /\ C27_ReturnsNone =>
           /\ rt_pc = "recover_data"
           /\ rt_iter > Len(rt_lost)

\* C27: if a write fails while recover_data is on the k-th lost zone it returns
\* the new sink's uncommitted writes followed by every input zone after the
\* k-th, in order and once each; it returns Ok(None) only after every input
\* zone has been gone through with no write failure reported to it.
C27_LeftoverIsSinkThenRest == [][C27_Step]_vars

\* recover_data has returned a list that holds zones it had not reached
C27_Witness ==
    /\ rt_pc = "recover_proc"
    /\ Len(volumes) >= 2
    /\ rt_iter <= MaxLost
    /\ Len(rt_lost) > Len(ConcurrentWriteBuffer_uncommitted_writes(sink))

\* recover_proc is entered from main, goes round its loop, is left
C28_Entered == rt_pc = "serialize" /\ rt_pc' = "recover_proc"

C28_CycleBegins == rt_pc = "recover_proc" /\ rt_pc' = "recover_data"

C28_Resumes == rt_pc \in {"recover_proc", "recover_data", "recover"} /\ rt_pc' = "serialize_proc"

C28_Step ==
    /\ C28_Entered => rt_lost' = ConcurrentWriteBuffer_uncommitted_writes(sink)
    /\ C28_CycleBegins =>
           /\ rt_lost' = rt_lost
           /\ rt_iter' = 1
           /\ sink' = ConcurrentWriteBuffer_new(BufLimit)
           /\ Len(volumes') = Len(volumes) + 1
    /\ C28_Resumes =>
           /\ rt_pc = "recover_data"
           /\ rt_iter > Len(rt_lost)
           /\ sink' = sink
    /\ rt_pc = "recover_proc" => rt_pc' \in {"recover_proc", "recover_data", "cancelled"}
    /\ rt_pc = "cancelled" => rt_pc' = "cancelled"

----------------------------------------------------------------------------
(* C26: merging with a chain (checked under SpecMerge)                      *)

\* C26: uncommitted_writes(Some(chain)) never drops a local zone: every
\* pending zone and the current zone either is merged into the chain's zone of
\* its identity or is appended after the chain's zones, so its identity is
\* among those of the result. Stated for the local zones that hold
\* uncommitted data, which are never the trimmed slack.
C26_NoLocalZoneDropped ==
    (dzs_last.op = "uncommitted_writes" /\ dzs_last.arg = 1) =>
        \A i \in 1 .. Len(StreamZones(dzs)) :
            StreamZones(dzs)[i].uncommitted_length > 0 =>
                \E j \in 1 .. Len(snapshot.zones) :
                    snapshot.zones[j].ident = StreamZones(dzs)[i].ident

----------------------------------------------------------------------------
(* C24: stream (checked under SpecCopy)                                     *)

\* C24: for a source of any length, longer or shorter than the buffers or a
\* multiple of their length, stream returns Complete(n) with n the length of
\* the source and the writer has received exactly the source's bytes: what the
\* writer holds is at any time the beginning of the source, and all of it
\* when stream has returned.
C24_CopiesSource ==
    /\ Len(sc_sink) <= Len(sc_source)
    /\ sc_sink = SubSeq(sc_source, 1, Len(sc_sink))
    /\ sc_pc = "done" => (sc_sink = sc_source /\ sc_written = Len(sc_source))

----------------------------------------------------------------------------
(* C29: serialize (checked under SpecSer)                                   *)

\* number of bytes in a sequence of chunks
RECURSIVE C29_Bytes(_)
C29_Bytes(chunks) == IF chunks = <<>> THEN 0 ELSE Head(chunks).len + C29_Bytes(Tail(chunks))

\* the kinds of the chunks that hold bytes, in order
RECURSIVE C29_Kinds(_)
C29_Kinds(chunks) ==
    IF chunks = <<>> THEN <<>>
    ELSE (IF Head(chunks).len > 0 THEN <<Head(chunks).kind>> ELSE <<>>)
             \o C29_Kinds(Tail(chunks))

\* header, prefix, rest of the file, padding: each at most once, in this order
C29_InOrder(kinds) ==
    \A i, j \in 1 .. Len(kinds) :
        i < j =>
            \E a, b \in 1 .. 4 :
                /\ a < b
                /\ kinds[i] = <<"encoded_header", "file_prefix", "file", "zeros">>[a]
                /\ kinds[j] = <<"encoded_header", "file_prefix", "file", "zeros">>[b]

\* C29: on success serialize has written the encoded header, the cached
\* prefix, the rest of the file and zero padding up to the next record
\* boundary, so that the entry's bytes are a multiple of the record length, and
\* it returns the number of bytes it wrote, padding included.
C29_WritesEntryAndCountsIt ==
    ts_pc = "returned" =>
        /\ C29_InOrder(C29_Kinds(ts_sink))
        /\ C29_Bytes(ts_sink) % TarRecord = 0
        /\ Unwrap(ts_ret) = C29_Bytes(ts_sink)

----------------------------------------------------------------------------
(* C31: dropping a tape device (checked under SpecTapeDrop)                 *)

\* the last read saw the end of the data
C31_EofObserved ==
    IF tp_dev.platform = "windows" THEN tp_dev.eof_condition
    ELSE tp_last.op = "read_block" /\ tp_last.ret = <<>>

\* what drop is to do after the caller's last operation
C31_Closing ==
    CASE tp_last.op = "write" -> <<"write_filemark", "write_filemark", "bsf">>
      [] tp_last.op = "write_filemark" -> <<"write_filemark", "bsf">>
      [] tp_last.op \in {"read", "read_block"} ->
             IF C31_EofObserved THEN <<>> ELSE <<"fsf">>
      [] OTHER -> <<>>

C31_Step == (tp_pc = "open" /\ tp_pc' = "dropped") => tp_last'.ret = C31_Closing

\* C31: on drop the closing actions depend only on the last operation: after a
\* data write two filemarks are written and the position moves back one
\* filemark; after a filemark write one more filemark and back one; after a
\* read that saw no end of data the position advances one filemark; after a
\* seek or a read that saw the end of data, nothing.
C31_DropFollowsLastOperation == [][C31_Step]_vars

----------------------------------------------------------------------------
(* C32: the ledger of ConcurrentWriteBuffer (checked under SpecRecover)     *)

\* the zones of the buffer's ledger, oldest first
C32_Ledger(b) == b.uncommitted_data_zones \o b.current_data_zone

\* the worker's answer the producer takes next is DidWriteAll(Ok(size))
C32_Acknowledged ==
    /\ sink.resp_recv # <<>>
    /\ Head(sink.resp_recv).op = "DidWriteAll"
    /\ Head(sink.resp_recv).ret = "ok"

\* the buffer after mark_data_committed of that size
C32_Marked == ConcurrentWriteBuffer_mark_data_committed(sink, Head(sink.resp_recv).size)

\* C32: mark_data_committed(n) credits exactly n bytes across the ledger,
\* oldest ended zone first: the committed lengths grow by at most n in total,
\* and the current zone's is not increased while an older ended zone absorbed
\* the whole commit or still has uncommitted bytes.
C32_CreditsOnce ==
    C32_Acknowledged =>
        /\ SumUncommitted(C32_Ledger(sink)) - SumUncommitted(C32_Ledger(C32_Marked))
               <= Head(sink.resp_recv).size
        /\ (/\ sink.uncommitted_data_zones # <<>>
            /\ IsSome(sink.current_data_zone)
            /\ sink.uncommitted_data_zones[1].uncommitted_length >= Head(sink.resp_recv).size)
               => Unwrap(C32_Marked.current_data_zone).committed_length
                      = Unwrap(sink.current_data_zone).committed_length

----------------------------------------------------------------------------
(* C33, C34: the worker after a failed write (checked under SpecCWB)        *)

\* C33: the bytes the worker has written to the inner sink are a prefix of
\* the bytes accepted by write(): once a queued write has failed, no write
\* queued after it is delivered to the inner sink.
C33_NothingAfterFailedWrite ==
    \A i, j \in 1 .. Len(cwb_inner) :
        (/\ i < j
         /\ cwb_inner[i].op = "write"
         /\ cwb_inner[i].ret # "ok")
            => ~(cwb_inner[j].op = "write" /\ cwb_inner[j].id # cwb_inner[i].id)

\* a write handed to the inner sink has failed and its response has been
\* taken by the producer; nothing is queued in either direction
C34_FailureReturned ==
    /\ \E i \in 1 .. Len(cwb_inner) :
           cwb_inner[i].op = "write" /\ cwb_inner[i].ret # "ok"
    /\ cwb.cmd_send = <<>>
    /\ cwb.resp_recv = <<>>

\* C34: after a failed write has been reported and returned, a later write()
\* still returns: the producer is never inside drain_buf_until_space, waiting
\* on recv, while the worker is alive and idle and no response is to come.
C34_LaterWriteReturns ==
    ~(/\ C34_FailureReturned
      /\ cwb_worker = "alive"
      /\ cwb_pc = "write"
      /\ ConcurrentWriteBuffer_must_drain(cwb, cwb_call.len))

----------------------------------------------------------------------------
(* C35: BlockingWriter.write over a sink that answers Ok(0) (checked under  *)
(* SpecBW)                                                                  *)

\* C35: BlockingWriter.write terminates whatever the inner sink answers: a
\* write handed to the writer from any reachable state, over any answer plan
\* of the sink, ends with a byte count or an error and never stays in the
\* shortcut loop.
C35_WriteTerminates ==
    \A len \in 1 .. MaxWriteLen, plan \in Plans :
        BlockingWriter_write(Armed(bw, plan.ok_left, plan.fault),
                             NextBytes(len)).ret \in {"ok", "err"}

----------------------------------------------------------------------------------------------------------------------------------------
(* C36: the zones uncommitted_writes returns once a write has failed        *)
(* (checked under SpecCWB)                                                  *)

\* the producer's last call came back with the error of a failed write
C36_ErrorReturned ==
    /\ cwb_pc = "idle"
    /\ cwb_call.op \in {"write", "flush"}
    /\ cwb_call.ret \notin {"ok", "pending", "panic", "terminated"}

\* C36: every zone with an identity that the sink's uncommitted_writes()
\* returns, here at the moment a failed write has been reported and the list
\* would be handed to the recovery engine, has uncommitted_length > 0.
C36_LostZonesHoldBytes ==
    C36_ErrorReturned =>
        \A i \in 1 .. Len(ConcurrentWriteBuffer_uncommitted_writes(cwb)) :
            IsSome(ConcurrentWriteBuffer_uncommitted_writes(cwb)[i].ident)
                => ConcurrentWriteBuffer_uncommitted_writes(cwb)[i].uncommitted_length > 0

----------------------------------------------------------------------------
(* C37: BlockingWriter::uncommitted_writes on any reachable writer (checked *)
(* under SpecBW)                                                            *)

\* C37: DataZoneStream.uncommitted_writes(Some(chain)) returns normally, also
\* for an empty chain on a stream with no zone: `zonelist.len() - 1` is never
\* evaluated on an empty list (it panics in a build with overflow checks and
\* wraps in one without).
C37_TrimNeverUnderflows ==
    ~BlockingWriter_uncommitted_writes(bw).underflow

----------------------------------------------------------------------------
(* C38: the BlockingWriter's ledger against its record buffer (checked      *)
(* under SpecBW)                                                            *)

\* the uncommitted bytes over all zones of the writer's ledger
C38_LedgerUncommitted(w) == C11_Uncommitted(StreamZones(w.datazone_stream))

\* the writer as a write of len bytes finds it once empty_block has returned
\* Ok, when that write goes on to the shortcut loop
C38_AtShortcut(w, len) ==
    /\ BlockingWriter_empty_block(w).ret = "ok"
    /\ Len(BlockingWriter_empty_block(w).w.block) = 0
    /\ len >= w.blocking_factor

\* C38: between operations the uncommitted_length of all zones of the ledger
\* sums to no more than the bytes held in the record buffer, and a write that
\* takes the shortcut, and so records its bytes with write_through, finds no
\* uncommitted byte in the ledger.
C38_LedgerWithinBlock ==
    /\ C38_LedgerUncommitted(bw) <= Len(bw.block)
    /\ \A len \in 1 .. MaxWriteLen :
           C38_AtShortcut(bw, len)
               => C38_LedgerUncommitted(BlockingWriter_empty_block(bw).w) = 0

\* a write_all into a begun zone went by the shortcut and left bytes in the
\* record buffer, all of them uncommitted in the ledger
C38_Witness ==
    /\ bw_last.op = "write_all"
    /\ bw_last.ret = "ok"
    /\ \E i \in 1 .. Len(bw.inner.calls) : bw.inner.calls[i].via = "shortcut"
    /\ Len(bw.block) > 0
    /\ C38_LedgerUncommitted(bw) = Len(bw.block)

----------------------------------------------------------------------------
(* C39: what a flush delivers (checked under SpecBW)                        *)

\* total rounded up to a whole number of records of the given size
C39_RoundUp(total, record) == ((total + record - 1) \div record) * record

\* after writes that all succeeded and one successful flush the sink holds
\* ceil(T / R) * R bytes
C39_FlushedLength ==
    (bw_phase = "flushed" /\ ~bw_failed)
        => Len(bw.inner.data) = C39_RoundUp(bw_input, bw.blocking_factor)

\* a flush that finds the record buffer empty hands nothing to the sink
C39_EmptyFlushDeliversNothing ==
    Len(bw.block) = 0
        => BlockingWriter_flush(Armed(bw, 0, "none")).w.inner.data = bw.inner.data

\* C39: writes totalling T bytes followed by one successful flush leave
\* exactly ceil(T / R) * R bytes in the inner sink, and a flush issued while
\* the record buffer is empty delivers no bytes.
C39_FlushPadsToRecord ==
    C39_FlushedLength /\ C39_EmptyFlushDeliversNothing

----------------------------------------------------------------------------
(* C40: the create driver reaches the marker (checked under SpecCreate)     *)

\* C40: if no write fails, the create driver eventually writes the
\* end-of-archive marker: the traversal jobs finish, every sender is dropped,
\* the receive loop of serialize_proc ends and close_tarball runs.
C40_MarkerEventuallyWritten == <>(cd_pc = "closed")

====
